---- MODULE Spec2Model ----
(***************************************************************************)
(* A model of the fog node of adrianoggm/fl-fog: the Model Cache           *)
(* (src/fog_node/model_cache.py), the Regional Aggregator                  *)
(* (src/fog_node/aggregator.py), the Edge Coordinator                      *)
(* (src/fog_node/edge_coordinator.py) and the FogNode orchestrator         *)
(* (src/fog_node/__init__.py).                                             *)
(*                                                                         *)
(* The program runs on one asyncio event loop.  A coroutine is atomic up   *)
(* to the next await that really suspends (asyncio.sleep, I/O); awaiting   *)
(* another coroutine of the program that does not suspend runs it inline.  *)
(* Every action below is one such atomic run of a handler.                 *)
(***************************************************************************)
EXTENDS Integers, Sequences, FiniteSets, TLC

None == "None"

(***************************************************************************)
(* Bounds of the model.                                                    *)
(***************************************************************************)
\* the wall clock runs over 0..MaxTime where the cache is checked and over
\* 0..MaxRoundTime where the aggregator is (one unit is the granularity of a
\* timestamp)
MaxTime == 2
MaxRoundTime == 1
\* cap of RegionalAggregator.current_round
MaxRounds == 1
\* caps of the monotone counters of ModelCache.stats
MaxRequests == 2
MaxEvictions == 2
\* cap of len(EdgeCoordinator.workload_assignments)
MaxWorkloads == 2
\* cap of the calls a client of the cache makes
MaxCalls == 4
\* cap of the callbacks added to EdgeCoordinator.event_callbacks
MaxCallbacks == 2
\* cap of the times a FogNode is started
MaxStarts == 2
\* cap of the length of ResourceMonitor.metrics_history
MaxMetrics == 3

(***************************************************************************)
(* The configuration the components are constructed with.                  *)
(***************************************************************************)
\* ModelCache.max_size_bytes, in bytes
MaxSizeBytes == 2
\* ModelCache.default_ttl, in clock units
DefaultTtl == 1
\* RegionalAggregator.min_clients
MinClients == 2
\* RegionalAggregator.max_wait_time, in seconds
MaxWaitTime == 2
\* EdgeCoordinator.max_edge_devices
MaxEdgeDevices == 2
\* EdgeCoordinator.device_timeout, in clock units
DeviceTimeout == 0
\* the 300 seconds assign_workload expects a workload to take, in clock units
ExpectedDuration == 1

VARIABLES
    now,            \* datetime.now() / time.time()
    \* ---- ModelCache
    cache,          \* self.cache: key -> CacheEntry
    current_size,   \* self.current_size
    access_order,   \* self.access_order
    stats,          \* self.stats
    max_size_bytes, \* self.max_size_bytes
    cache_keys,     \* the insertion order of the keys of self.cache (a dict)
    calls,          \* the calls a client of the cache has made, in order
    cacheOut,       \* what the last cache operation returned and evicted
    \* ---- RegionalAggregator
    strategy,           \* self.strategy
    min_clients,        \* self.min_clients
    current_round,      \* self.current_round
    pending_updates,    \* self.pending_updates
    aggregation_history,\* self.aggregation_history
    round_start_time,   \* self.round_start_time: <<>> is None, <<t>> a time
    aggregation_task,   \* self.aggregation_task: "none", or the state of the task
    task_waited,        \* seconds the coordination task has slept so far
    aggOut,             \* what the last add_edge_update returned
    submitted,          \* clients that handed a valid update to submit_training_update
    \* ---- EdgeCoordinator
    connected_devices,    \* self.connected_devices: device_id -> EdgeDeviceInfo
    device_order,         \* the insertion order of the keys of connected_devices
    workload_assignments, \* self.workload_assignments: workload_id -> WorkloadAssignment
    device_groups,        \* self.device_groups: device_type -> set of device ids
    coordOut,             \* what the last coordinator operation returned and notified
    event_callbacks,      \* self.event_callbacks: event type -> list of callbacks
    \* ---- FogNode and its EdgeInterface
    running,              \* FogNode._running
    edgeOut,              \* what the last operation published to devices and dispatched
    \* ---- ResourceMonitor
    metrics_history,      \* self.metrics_history: the ResourceMetrics, in order
    is_monitoring,        \* self.is_monitoring
    monitorOut            \* the last call of update_metrics: when it returned, what it logged

cacheVars == <<cache, current_size, access_order, stats, cacheOut,
               max_size_bytes, cache_keys, calls>>
aggVars == <<strategy, min_clients, current_round, pending_updates, aggregation_history,
             round_start_time, aggregation_task, task_waited, aggOut, submitted>>
coordVars == <<connected_devices, device_order, workload_assignments, device_groups,
               coordOut, event_callbacks>>
nodeVars == <<running, edgeOut>>
monitorVars == <<metrics_history, is_monitoring, monitorOut>>
vars == <<now, cacheVars, aggVars, coordVars, nodeVars, monitorVars>>

(***************************************************************************)
(* Helpers on sequences (Python lists).                                    *)
(***************************************************************************)
Range(s) == {s[i] : i \in 1..Len(s)}

\* list.remove(x): drops the first occurrence of x
RECURSIVE ListRemove(_, _)
ListRemove(s, x) ==
    IF s = <<>> THEN <<>>
    ELSE IF Head(s) = x THEN Tail(s)
    ELSE <<Head(s)>> \o ListRemove(Tail(s), x)

(***************************************************************************)
(* The wall clock.  It never runs backwards; two calls of datetime.now()   *)
(* may return the same value.                                              *)
(***************************************************************************)
Advance(limit) ==
    /\ now < limit
    /\ now' = now + 1
    /\ UNCHANGED <<cacheVars, aggVars, coordVars, nodeVars, monitorVars>>

Tick == Advance(MaxTime)
RoundTick == Advance(MaxRoundTime)

(***************************************************************************)
(* Model Cache                                                             *)
(***************************************************************************)
Keys == {"a", "b", "c"}

\* An artifact is modelled by the length of its pickle (len |-> n); Unpicklable
\* is an artifact pickle.dumps raises on, NoData the None that get returns.
Unpicklable == [len |-> 0 - 1]
NoData == [len |-> 0]
Datas == [len : 1..(MaxSizeBytes + 1)] \cup {Unpicklable}
PickleRaises(data) == data.len < 0
PickledSize(data) == data.len

\* An Optional[timedelta] argument: <<>> is None, <<n>> is timedelta of n units
TtlArgs == {<<>>, <<0>>}

\* `ttl or self.default_ttl`: None and timedelta(0) are both falsy
EffectiveTtl(ttl) == IF ttl = <<>> \/ ttl[1] = 0 THEN DefaultTtl ELSE ttl[1]

\* a TTL test that finds no entry expired
NeverExpired(entry, t) == FALSE

\* `entry.ttl and datetime.now() - entry.created_at > entry.ttl`
Expired(entry, t) ==
    /\ entry.ttl # 0
    /\ t - entry.created_at > entry.ttl

\* What a cache operation hands back: ok is the boolean it returns (for get:
\* whether it returned data), data what get returned, evicted the keys
\* _make_space evicted, in order.  (The operation, its key and the count
\* cleanup_expired returns are not kept in the state.)
CacheOut(op, key, ok, data, count, evicted) ==
    [ok |-> ok, data |-> data, evicted |-> evicted]

CState == [cache |-> cache, current_size |-> current_size,
           access_order |-> access_order, cache_keys |-> cache_keys]

\* a _remove_entry that forgets to give the bytes back
RemoveEntryKeepsBytes(S, key) ==
    IF key \notin DOMAIN S.cache THEN S
    ELSE [cache |-> [x \in (DOMAIN S.cache) \ {key} |-> S.cache[x]],
          current_size |-> S.current_size,
          access_order |-> ListRemove(S.access_order, key),
          cache_keys |-> ListRemove(S.cache_keys, key)]

RemoveEntry(S, key) ==
    IF key \notin DOMAIN S.cache THEN S
    ELSE [cache |-> [x \in (DOMAIN S.cache) \ {key} |-> S.cache[x]],
          current_size |-> S.current_size - S.cache[key].size_bytes,
          access_order |-> IF key \in Range(S.access_order)
                           THEN ListRemove(S.access_order, key)
                           ELSE S.access_order,
          cache_keys |-> ListRemove(S.cache_keys, key)]

\* a _make_space that stops after one eviction
MakeSpaceOnce(S, required_bytes, ev) ==
    IF S.current_size + required_bytes > max_size_bytes /\ S.access_order # <<>>
    THEN [st |-> RemoveEntry(S, S.access_order[1]),
          evicted |-> Append(ev, S.access_order[1])]
    ELSE [st |-> S, evicted |-> ev]

\* _make_space: the state it leaves and the keys it evicted, in order
RECURSIVE MakeSpace(_, _, _)
MakeSpace(S, required_bytes, ev) ==
    IF S.current_size + required_bytes > max_size_bytes /\ S.access_order # <<>>
    THEN LET lru_key == S.access_order[1]
         IN  MakeSpace(RemoveEntry(S, lru_key), required_bytes, Append(ev, lru_key))
    ELSE [st |-> S, evicted |-> ev]

\* a get that appends the key without removing its old place
MoveToEndKeepsOldPlace(order, key) == Append(order, key)

\* a get that leaves the recency list as it is
MoveToEndForgotten(order, key) == order

\* get: `if key in self.access_order: remove(key)`, then append(key)
MoveToEnd(order, key) ==
    Append(IF key \in Range(order) THEN ListRemove(order, key) ELSE order, key)

\* `metadata or {}`: metadata is <<>> for None, which is stored as {} (<<>>)
Put(key, data, ttl, metadata) ==
    IF PickleRaises(data) \/ PickledSize(data) > max_size_bytes
    THEN /\ cacheOut' = CacheOut("put", key, FALSE, NoData, 0, <<>>)
         /\ UNCHANGED <<now, cache, current_size, access_order, stats, cache_keys>>
    ELSE LET size_bytes == PickledSize(data)
             ms == MakeSpace(CState, size_bytes, <<>>)
             entry == [data |-> data, size_bytes |-> size_bytes,
                       created_at |-> now, last_accessed |-> now,
                       ttl |-> EffectiveTtl(ttl), metadata |-> metadata]
             rm == RemoveEntry(ms.st, key)
         IN  /\ stats.evictions + Len(ms.evicted) <= MaxEvictions
             /\ cache' = [x \in (DOMAIN rm.cache) \cup {key} |->
                            IF x = key THEN entry ELSE rm.cache[x]]
             /\ current_size' = rm.current_size + size_bytes
             /\ access_order' = Append(rm.access_order, key)
             /\ cache_keys' = Append(rm.cache_keys, key)
             /\ stats' = [stats EXCEPT !.evictions = @ + Len(ms.evicted)]
             /\ cacheOut' = CacheOut("put", key, TRUE, NoData, 0, ms.evicted)
             /\ UNCHANGED now

Get(key) ==
    /\ stats.total_requests < MaxRequests
    /\ IF key \notin DOMAIN cache
       THEN /\ stats' = [stats EXCEPT !.total_requests = @ + 1, !.misses = @ + 1]
            /\ cacheOut' = CacheOut("get", key, FALSE, NoData, 0, <<>>)
            /\ UNCHANGED <<now, cache, current_size, access_order, cache_keys>>
       ELSE IF Expired(cache[key], now)
       THEN LET rm == RemoveEntry(CState, key)
            IN  /\ cache' = rm.cache
                /\ current_size' = rm.current_size
                /\ access_order' = rm.access_order
                /\ cache_keys' = rm.cache_keys
                /\ stats' = [stats EXCEPT !.total_requests = @ + 1, !.misses = @ + 1]
                /\ cacheOut' = CacheOut("get", key, FALSE, NoData, 0, <<>>)
                /\ UNCHANGED now
       ELSE /\ cache' = [cache EXCEPT ![key].last_accessed = now]
            /\ access_order' = MoveToEnd(access_order, key)
            /\ stats' = [stats EXCEPT !.total_requests = @ + 1, !.hits = @ + 1]
            /\ cacheOut' = CacheOut("get", key, TRUE, cache[key].data, 0, <<>>)
            /\ UNCHANGED <<now, current_size, cache_keys>>

Contains(key) ==
    IF key \notin DOMAIN cache
    THEN /\ cacheOut' = CacheOut("contains", key, FALSE, NoData, 0, <<>>)
         /\ UNCHANGED <<now, cache, current_size, access_order, stats, cache_keys>>
    ELSE IF Expired(cache[key], now)
    THEN LET rm == RemoveEntry(CState, key)
         IN  /\ cache' = rm.cache
             /\ current_size' = rm.current_size
             /\ access_order' = rm.access_order
             /\ cache_keys' = rm.cache_keys
             /\ cacheOut' = CacheOut("contains", key, FALSE, NoData, 0, <<>>)
             /\ UNCHANGED <<now, stats>>
    ELSE /\ cacheOut' = CacheOut("contains", key, TRUE, NoData, 0, <<>>)
         /\ UNCHANGED <<now, cache, current_size, access_order, stats, cache_keys>>

Remove(key) ==
    LET rm == RemoveEntry(CState, key)
    IN  /\ cache' = rm.cache
        /\ current_size' = rm.current_size
        /\ access_order' = rm.access_order
        /\ cache_keys' = rm.cache_keys
        /\ cacheOut' = CacheOut("remove", key, key \in DOMAIN cache, NoData, 0, <<>>)
        /\ UNCHANGED <<now, stats>>

Clear ==
    /\ cache' = <<>>
    /\ access_order' = <<>>
    /\ cache_keys' = <<>>
    /\ current_size' = 0
    /\ cacheOut' = CacheOut("clear", None, TRUE, NoData, 0, <<>>)
    /\ UNCHANGED <<now, stats>>

RECURSIVE RemoveAll(_, _)
RemoveAll(S, ks) ==
    IF ks = {} THEN S
    ELSE LET k == CHOOSE x \in ks : TRUE IN RemoveAll(RemoveEntry(S, k), ks \ {k})

CleanupExpired ==
    LET expired_keys == {k \in DOMAIN cache : Expired(cache[k], now)}
        rm == RemoveAll(CState, expired_keys)
    IN  /\ cache' = rm.cache
        /\ current_size' = rm.current_size
        /\ access_order' = rm.access_order
        /\ cache_keys' = rm.cache_keys
        /\ cacheOut' = CacheOut("cleanup_expired", None, TRUE, NoData,
                                  Cardinality(expired_keys), <<>>)
        /\ UNCHANGED <<now, stats>>

\* ModelCache.__init__, for a capacity of max_size bytes
CacheConstructed(max_size) ==
    /\ max_size_bytes = max_size
    /\ cache = <<>>
    /\ cache_keys = <<>>
    /\ current_size = 0
    /\ access_order = <<>>
    /\ stats = [hits |-> 0, misses |-> 0, evictions |-> 0, total_requests |-> 0]
    /\ cacheOut = CacheOut(None, None, TRUE, NoData, 0, <<>>)
    /\ calls = <<>>

CacheInit == CacheConstructed(MaxSizeBytes)

PutStep ==
    /\ \E key \in Keys, data \in Datas, ttl \in TtlArgs : Put(key, data, ttl, <<>>)
    /\ UNCHANGED <<aggVars, coordVars, nodeVars, monitorVars, max_size_bytes, calls>>
GetStep ==
    /\ \E key \in Keys : Get(key)
    /\ UNCHANGED <<aggVars, coordVars, nodeVars, monitorVars, max_size_bytes, calls>>
ContainsStep ==
    /\ \E key \in Keys : Contains(key)
    /\ UNCHANGED <<aggVars, coordVars, nodeVars, monitorVars, max_size_bytes, calls>>
RemoveStep ==
    /\ \E key \in Keys : Remove(key)
    /\ UNCHANGED <<aggVars, coordVars, nodeVars, monitorVars, max_size_bytes, calls>>
ClearStep ==
    /\ Clear
    /\ UNCHANGED <<aggVars, coordVars, nodeVars, monitorVars, max_size_bytes, calls>>
CleanupExpiredStep ==
    /\ CleanupExpired
    /\ UNCHANGED <<aggVars, coordVars, nodeVars, monitorVars, max_size_bytes, calls>>

\* A client that makes up to MaxCalls calls on the cache; calls notes each
\* call as <<operation, key, bytes>>.  ScenarioDatas are artifacts whose
\* pickles are 300, 500 and 600 bytes long, UnitData one of a single byte.
ScenarioDatas == {[len |-> 300], [len |-> 500], [len |-> 600]}
UnitData == {[len |-> 1]}
ClientPut(keys, datas) ==
    /\ Len(calls) < MaxCalls
    /\ \E key \in keys, data \in datas :
          /\ Put(key, data, <<>>, <<>>)
          /\ calls' = Append(calls, <<"put", key, PickledSize(data)>>)
    /\ UNCHANGED <<aggVars, coordVars, nodeVars, monitorVars, max_size_bytes>>
ClientGet(keys) ==
    /\ Len(calls) < MaxCalls
    /\ \E key \in keys :
          /\ Get(key)
          /\ calls' = Append(calls, <<"get", key, 0>>)
    /\ UNCHANGED <<aggVars, coordVars, nodeVars, monitorVars, max_size_bytes>>
\* cleanup_expired, called by the cleanup loop
ClientCleanupExpired ==
    /\ Len(calls) < MaxCalls
    /\ CleanupExpired
    /\ calls' = Append(calls, <<"cleanup_expired", None, 0>>)
    /\ UNCHANGED <<aggVars, coordVars, nodeVars, monitorVars, max_size_bytes>>

\* The model-specific methods.  The strings they build and take apart are
\* sequences of characters.
ModelIds == {<<"g">>, <<"h">>}
Versions == {<<"1">>, <<"2">>}

\* f"model:{model_id}:{version}"
CacheKey(model_id, version) ==
    <<"m", "o", "d", "e", "l", ":">> \o model_id \o <<":">> \o version

\* str.startswith
StartsWith(s, prefix) ==
    /\ Len(s) >= Len(prefix)
    /\ SubSeq(s, 1, Len(prefix)) = prefix

\* cache_model, called without metadata of the caller's
CacheModel(model_id, model_weights, version) ==
    LET model_metadata == [model_id |-> model_id, version |-> version,
                           type |-> "model_weights"]
    IN  Put(CacheKey(model_id, version), model_weights, <<>>, model_metadata)

GetModel(model_id, version) == Get(CacheKey(model_id, version))

\* the loop of get_latest_model over self.cache.items(); latest is <<>> while
\* latest_version and latest_timestamp are None, then <<version, timestamp>>
RECURSIVE LatestLoop(_, _, _)
LatestLoop(keys, prefix, latest) ==
    IF keys = <<>> THEN latest
    ELSE LET key == Head(keys)
             entry == cache[key]
             newer == /\ StartsWith(key, prefix)
                      /\ entry.metadata # <<>>
                      /\ "type" \in DOMAIN entry.metadata
                      /\ entry.metadata.type = "model_weights"
                      /\ (latest = <<>> \/ entry.created_at > latest[2])
         IN  LatestLoop(Tail(keys), prefix,
                        IF newer THEN <<entry.metadata.version, entry.created_at>>
                        ELSE latest)

GetLatestModel(model_id) ==
    LET latest == LatestLoop(cache_keys, CacheKey(model_id, <<>>), <<>>)
    IN  IF latest # <<>> /\ latest[1] # <<>>
        THEN GetModel(model_id, latest[1])
        ELSE /\ cacheOut' = CacheOut("get_latest_model", model_id, FALSE, NoData, 0, <<>>)
             /\ UNCHANGED <<now, cache, current_size, access_order, stats, cache_keys>>

CacheModelStep ==
    /\ \E model_id \in ModelIds, version \in Versions, data \in ScenarioDatas :
          CacheModel(model_id, data, version)
    /\ UNCHANGED <<aggVars, coordVars, nodeVars, monitorVars, max_size_bytes, calls>>
GetLatestModelStep ==
    /\ \E model_id \in ModelIds : GetLatestModel(model_id)
    /\ UNCHANGED <<aggVars, coordVars, nodeVars, monitorVars, max_size_bytes, calls>>

\* str(n), for a natural number
RECURSIVE Str(_)
Str(n) ==
    LET digit == <<"0", "1", "2", "3", "4", "5", "6", "7", "8", "9">>
    IN  IF n < 10 THEN <<digit[n + 1]>>
        ELSE Str(n \div 10) \o <<digit[(n % 10) + 1]>>

\* f"aggregation:{round_id}", the key of cache_aggregation_result
AggregationKey(round_id) ==
    <<"a", "g", "g", "r", "e", "g", "a", "t", "i", "o", "n", ":">> \o Str(round_id)

(***************************************************************************)
(* Exact fractions <<numerator, denominator>>, in lowest terms.  The       *)
(* program computes with floats; the model computes the same expressions   *)
(* without rounding.                                                       *)
(***************************************************************************)
RECURSIVE Gcd(_, _)
Gcd(a, b) == IF b = 0 THEN a ELSE Gcd(b, a % b)

Abs(x) == IF x < 0 THEN 0 - x ELSE x

Reduced(n, d) ==
    LET g == Gcd(Abs(n), Abs(d))
    IN  IF g = 0 THEN <<0, 1>> ELSE <<n \div g, d \div g>>
\* the operands are bound by a set constructor, which evaluates each once
Rat(n, d) == CHOOSE r \in {Reduced(a, b) : a \in {n}, b \in {d}} : TRUE
RatAdd(x, y) == Rat(x[1] * y[2] + y[1] * x[2], x[2] * y[2])
RatMul(x, y) == Rat(x[1] * y[1], x[2] * y[2])
RatScale(x, k) == Rat(x[1] * k, x[2])

(***************************************************************************)
(* Regional Aggregator                                                     *)
(***************************************************************************)
Strategies == {"fedavg", "fedprox", "regional", "adaptive"}
Clients == {"c1", "c2", "c3"}
\* c4 trains what c3 trains, on the model of c1 and c2
SameModelClients == {"c1", "c2", "c4"}
\* c5 trains on 100 samples, enough for the adaptive sample threshold
AdaptiveClients == {"c2", "c4", "c5"}
\* c6 runs the model of c1 with one more parameter, the one c3 trains
MixedModelClients == {"c1", "c3", "c6"}

\* self.fedprox_mu = 0.1
fedprox_mu == Rat(1, 10)
\* _adaptive_trigger_condition: total_samples >= 100
AdaptiveSampleThreshold == 100

\* What a client trains: the parameter names of its model (c3 runs another
\* model than c1 and c2), the weights (a tensor is modelled by one integer),
\* the number of samples and the loss.
TrainedParams(client) ==
    CASE client = "c3" -> {"bias"}
      [] client = "c6" -> {"weight", "bias"}
      [] OTHER -> {"weight"}
TrainedWeight(client) == CASE client = "c1" -> 1 [] client = "c2" -> 2 [] OTHER -> 3
TrainedSamples(client) ==
    CASE client = "c1" -> 10 [] client = "c2" -> 20 [] client = "c5" -> 100 [] OTHER -> 70
TrainedLoss(client) == CASE client = "c1" -> 0 [] client = "c2" -> 1 [] OTHER -> 0

\* The shapes of update a device may send: a well-formed one, one with an
\* empty weights mapping and one that reports no samples.
UpdateKinds == {"valid", "no_weights", "no_samples"}

\* EdgeUpdate(client_id, model_weights, sample_count, training_loss, timestamp)
\* with the dataclass defaults privacy_budget = compression_ratio = 1.0
EdgeUpdate(client, kind, timestamp) ==
    [client_id |-> client,
     model_weights |->
        IF kind = "no_weights" THEN <<>>
        ELSE [p \in TrainedParams(client) |-> TrainedWeight(client)],
     sample_count |-> IF kind = "no_samples" THEN 0 ELSE TrainedSamples(client),
     training_loss |-> TrainedLoss(client),
     timestamp |-> timestamp,
     privacy_budget |-> 1,
     compression_ratio |-> 1]

TaskActive == aggregation_task \in {"created", "sleeping"}
\* `self.aggregation_task and not self.aggregation_task.done()` is false
TaskIdle == aggregation_task \in {"none", "finished", "cancelled"}

\* sum(...) over a list
RECURSIVE Sum(_)
Sum(s) == IF s = <<>> THEN 0 ELSE Head(s) + Sum(Tail(s))

\* sum(u.sample_count for u in updates)
TotalSamples(updates) == Sum([i \in 1..Len(updates) |-> updates[i].sample_count])

\* a _validate_update without the duplicate-client check
ValidateUpdateNoDuplicateCheck(update) ==
    /\ ~(round_start_time # <<>> /\ update.timestamp < round_start_time[1])
    /\ update.model_weights # <<>>
    /\ update.sample_count > 0

ValidateUpdate(update) ==
    /\ ~(round_start_time # <<>> /\ update.timestamp < round_start_time[1])
    /\ update.model_weights # <<>>
    /\ update.sample_count > 0
    /\ update.client_id \notin {pending_updates[i].client_id : i \in 1..Len(pending_updates)}

\* add_edge_update: the pending list it leaves and what it returns
AddEdgeUpdate(update) ==
    IF round_start_time = <<>> THEN
        /\ aggOut' = [admitted |-> FALSE]
        /\ UNCHANGED pending_updates
    ELSE IF ~ValidateUpdate(update) THEN
        /\ aggOut' = [admitted |-> FALSE]
        /\ UNCHANGED pending_updates
    ELSE
        /\ pending_updates' = Append(pending_updates, update)
        /\ aggOut' = [admitted |-> TRUE]

\* np.var(losses) < 0.1, i.e. (n * sum l^2 - (sum l)^2) / n^2 < 1/10
LossVarianceBelowTenth(updates) ==
    LET n == Len(updates)
        s1 == Sum([i \in 1..n |-> updates[i].training_loss])
        s2 == Sum([i \in 1..n |-> updates[i].training_loss * updates[i].training_loss])
    IN  10 * (n * s2 - s1 * s1) < n * n

AdaptiveTriggerCondition ==
    IF pending_updates = <<>> THEN FALSE
    ELSE LET total_samples == TotalSamples(pending_updates)
             sample_threshold == total_samples >= AdaptiveSampleThreshold
             convergence_threshold ==
                 IF Len(pending_updates) > 1
                 THEN LossVarianceBelowTenth(pending_updates)
                 ELSE FALSE     \* loss_variance = 1.0
         IN  sample_threshold /\
             (convergence_threshold \/ Len(pending_updates) >= min_clients * 2)

\* a trigger test that always asks to wait
ShouldTriggerNever == FALSE

ShouldTriggerAggregation ==
    IF Len(pending_updates) < min_clients THEN FALSE
    ELSE IF strategy = "adaptive" THEN AdaptiveTriggerCondition
    ELSE Len(pending_updates) >= min_clients

\* a weighting that gives every update the same factor
UpdateWeightUniform(u, total_samples) == Rat(1, Len(pending_updates))

\* The factor an update enters the weighted sum with
UpdateWeight(u, total_samples) ==
    LET base_weight == Rat(u.sample_count, total_samples)
    IN  CASE strategy = "fedprox" ->
               \* 1.0 / (1.0 + self.fedprox_mu * update.training_loss)
               LET d == RatAdd(<<1, 1>>, RatScale(fedprox_mu, u.training_loss))
               IN  RatMul(base_weight, <<d[2], d[1]>>)
          [] strategy = "adaptive" ->
               RatScale(RatMul(RatMul(base_weight, Rat(1, 1 + u.training_loss)),
                               Rat(1, 1 + u.privacy_budget)),
                        u.compression_ratio)
          [] OTHER -> base_weight

RECURSIVE WeightedSum(_, _, _)
WeightedSum(updates, param_name, total_samples) ==
    IF updates = <<>> THEN <<0, 1>>
    ELSE RatAdd(RatScale(UpdateWeight(Head(updates), total_samples),
                         Head(updates).model_weights[param_name]),
                WeightedSum(Tail(updates), param_name, total_samples))

\* a _perform_aggregation that answers with the weights of the first update
\* where a lookup would raise
PerformAggregationIgnoresMissing ==
    [raised |-> FALSE,
     result |->
        [aggregated_weights |-> pending_updates[1].model_weights,
         participating_clients |->
            [i \in 1..Len(pending_updates) |-> pending_updates[i].client_id],
         total_samples |-> TotalSamples(pending_updates),
         average_loss |-> <<0, 1>>,
         aggregation_round |-> current_round]]

\* _perform_aggregation on a non-empty list of updates: raised is TRUE when a
\* lookup update.model_weights[param_name] raises KeyError
AggregationOf(updates) ==
    LET total_samples == TotalSamples(updates)
        param_names == DOMAIN updates[1].model_weights
        raised == \E i \in 1..Len(updates) :
                     \E p \in param_names : p \notin DOMAIN updates[i].model_weights
    IN  IF raised THEN [raised |-> TRUE]
        ELSE [raised |-> FALSE,
              result |->
                [aggregated_weights |->
                    [p \in param_names |-> WeightedSum(updates, p, total_samples)],
                 participating_clients |->
                    [i \in 1..Len(updates) |-> updates[i].client_id],
                 total_samples |-> total_samples,
                 average_loss |-> Rat(Sum([i \in 1..Len(updates) |->
                                 updates[i].training_loss *
                                 updates[i].sample_count]), total_samples),
                 aggregation_round |-> current_round]]

PerformAggregation == AggregationOf(pending_updates)

\* a start_aggregation_round that forgets to count the round
StartAggregationRoundNoCount ==
    IF TaskActive THEN
        UNCHANGED <<current_round, round_start_time, pending_updates,
                    aggregation_task, task_waited>>
    ELSE
        /\ UNCHANGED current_round
        /\ round_start_time' = <<now>>
        /\ pending_updates' = <<>>
        /\ aggregation_task' = "created"
        /\ task_waited' = 0

\* a start_aggregation_round without its test of the running task (it may
\* start one round more, over the round that is active)
StartAggregationRoundUnguarded ==
    /\ current_round <= MaxRounds
    /\ current_round' = current_round + 1
    /\ round_start_time' = <<now>>
    /\ pending_updates' = <<>>
    /\ aggregation_task' = "created"
    /\ task_waited' = 0

StartAggregationRound ==
    IF TaskActive THEN
        UNCHANGED <<current_round, round_start_time, pending_updates,
                    aggregation_task, task_waited>>
    ELSE
        /\ current_round < MaxRounds
        /\ current_round' = current_round + 1
        /\ round_start_time' = <<now>>
        /\ pending_updates' = <<>>
        /\ aggregation_task' = "created"
        /\ task_waited' = 0

\* a caller of the aggregator starts a round
StartRound ==
    /\ StartAggregationRound
    /\ UNCHANGED <<now, cacheVars, coordVars, nodeVars, monitorVars, strategy, min_clients, aggregation_history, aggOut, submitted>>

\* a caller of the aggregator hands it an update with a timestamp of its choice
AddEdgeUpdateFrom(clients, kinds) ==
    /\ \E client \in clients, kind \in kinds, timestamp \in 0..now :
          AddEdgeUpdate(EdgeUpdate(client, kind, timestamp))
    /\ UNCHANGED <<now, cacheVars, coordVars, nodeVars, monitorVars, strategy, min_clients, current_round, aggregation_history,
                   round_start_time, aggregation_task, task_waited, submitted>>

AddEdgeUpdateStep == AddEdgeUpdateFrom(Clients, UpdateKinds)

\* a coordination task that aggregates only when the quorum was met
CoordinateAggregationQuorumOnly(slept) ==
    /\ TaskActive
    /\ LET elapsed == IF aggregation_task = "created" THEN 0
                      ELSE IF task_waited + slept > MaxWaitTime THEN MaxWaitTime
                      ELSE task_waited + slept
           leave == \/ ~(elapsed < MaxWaitTime)
                    \/ (Len(pending_updates) >= min_clients /\ ShouldTriggerAggregation)
       IN  IF ~leave THEN
               /\ aggregation_task' = "sleeping"
               /\ task_waited' = elapsed
               /\ UNCHANGED aggregation_history
           ELSE
               /\ aggregation_task' = "finished"
               /\ task_waited' = elapsed
               /\ IF Len(pending_updates) >= min_clients /\ ~PerformAggregation.raised
                  THEN aggregation_history' =
                           Append(aggregation_history, PerformAggregation.result)
                  ELSE UNCHANGED aggregation_history
    /\ UNCHANGED <<now, cacheVars, coordVars, nodeVars, monitorVars, strategy, min_clients, current_round, pending_updates,
                   round_start_time, aggOut, submitted>>

\* a coordination task that records a result without participants when the
\* deadline finds no update
CoordinateAggregationEmitsEmpty(slept) ==
    /\ TaskActive
    /\ LET elapsed == IF aggregation_task = "created" THEN 0
                      ELSE IF task_waited + slept > MaxWaitTime THEN MaxWaitTime
                      ELSE task_waited + slept
           leave == \/ ~(elapsed < MaxWaitTime)
                    \/ (Len(pending_updates) >= min_clients /\ ShouldTriggerAggregation)
       IN  IF ~leave THEN
               /\ aggregation_task' = "sleeping"
               /\ task_waited' = elapsed
               /\ UNCHANGED aggregation_history
           ELSE
               /\ aggregation_task' = "finished"
               /\ task_waited' = elapsed
               /\ IF pending_updates = <<>>
                  THEN aggregation_history' =
                           Append(aggregation_history,
                                  [aggregated_weights |-> <<>>,
                                   participating_clients |-> <<>>,
                                   total_samples |-> 0,
                                   average_loss |-> <<0, 1>>,
                                   aggregation_round |-> current_round])
                  ELSE IF ~PerformAggregation.raised
                  THEN aggregation_history' =
                           Append(aggregation_history, PerformAggregation.result)
                  ELSE UNCHANGED aggregation_history
    /\ UNCHANGED <<now, cacheVars, coordVars, nodeVars, monitorVars, strategy, min_clients, current_round, pending_updates,
                   round_start_time, aggOut, submitted>>

\* One run of the task _coordinate_aggregation, from its start or from a
\* sleep to its next sleep or its end; slept is the time the sleep took.
CoordinateAggregation(slept) ==
    /\ TaskActive
    /\ LET elapsed == IF aggregation_task = "created" THEN 0
                      ELSE IF task_waited + slept > MaxWaitTime THEN MaxWaitTime
                      ELSE task_waited + slept
           leave == \/ ~(elapsed < MaxWaitTime)
                    \/ (Len(pending_updates) >= min_clients /\ ShouldTriggerAggregation)
       IN  IF ~leave THEN
               /\ aggregation_task' = "sleeping"
               /\ task_waited' = elapsed
               /\ UNCHANGED aggregation_history
           ELSE
               /\ aggregation_task' = "finished"
               /\ task_waited' = elapsed
               /\ IF pending_updates # <<>> /\ ~PerformAggregation.raised
                  THEN aggregation_history' =
                           Append(aggregation_history, PerformAggregation.result)
                  ELSE UNCHANGED aggregation_history
    /\ UNCHANGED <<now, cacheVars, coordVars, nodeVars, monitorVars, strategy, min_clients, current_round, pending_updates,
                   round_start_time, aggOut, submitted>>

CoordinateAggregationStep == \E slept \in 1..MaxWaitTime : CoordinateAggregation(slept)

\* RegionalAggregator.cleanup: cancels the task at its sleep
AggregatorCleanup ==
    /\ aggregation_task' = IF TaskActive THEN "cancelled" ELSE aggregation_task
    /\ UNCHANGED <<now, cacheVars, coordVars, nodeVars, monitorVars, strategy, min_clients, current_round, pending_updates,
                   aggregation_history, round_start_time, task_waited, aggOut,
                   submitted>>

(***************************************************************************)
(* Edge Coordinator (src/fog_node/edge_coordinator.py)                     *)
(***************************************************************************)
Devices == {"d1", "d2", "d3"}
\* the devices that come where workloads are assigned
Workers == {"d1", "d2"}
\* the devices that come where the selection is looked at: d4 is a second
\* device of the make of d1
SelectionDevices == {"d1", "d2", "d4"}
Statuses == {"online", "offline", "busy", "idle", "overloaded", "low_battery"}

\* what each device sends when it registers
DeviceType(d) == IF d = "d3" THEN "raspberry_pi" ELSE "smartphone"
Capabilities(d) ==
    CASE d \in {"d1", "d4"} -> [cpu_cores |-> 4, memory_gb |-> 4]
      [] d = "d2" -> [cpu_cores |-> 1, memory_gb |-> 2, sensors |-> <<"gps">>,
                      battery_level |-> 25]
      [] OTHER    -> [cpu_cores |-> 1, sensors |-> <<"camera">>]

\* the metrics a device sends with a status update: None, or a dict
MetricsArgs(d) == IF d = "d1" THEN {<<>>, [avg_cpu_usage |-> 60]} ELSE {<<>>}
\* the status a heartbeat of a device reports
ReportedStatuses == {"online", "overloaded", "low_battery"}

\* the workloads callers assign: <<workload_type, parameters>>, the parameters
\* without and with a "priority" entry
WorkloadArgs == {<<"training", [epochs |-> 1]>>,
                 <<"data_collection", [priority |-> 10]>>}

\* dict.get(key, default)
DictGet(dict, key, default) == IF key \in DOMAIN dict THEN dict[key] ELSE default
\* dict.update(other)
DictUpdate(dict, other) ==
    [k \in DOMAIN dict \cup DOMAIN other |->
        IF k \in DOMAIN other THEN other[k] ELSE dict[k]]
\* dict[key] = value
DictSet(dict, key, value) ==
    [k \in DOMAIN dict \cup {key} |-> IF k = key THEN value ELSE dict[k]]
\* del dict[key]
DictDel(dict, key) == [k \in DOMAIN dict \ {key} |-> dict[k]]

\* f"workload_{int(time.time())}_{best_device}"
WorkloadId(t, device_id) == <<t, device_id>>
UnknownWorkload == <<0 - 1, "d1">>

\* the keys of self.event_callbacks
EventTypes == {"device_connected", "device_disconnected", "workload_completed",
               "device_overloaded"}

\* what an operation made the edge interface do: the messages it published,
\* <<device_id, message_type, body>> each, and the handlers it dispatched to
EdgeOut(published, handled) == [published |-> published, handled |-> handled]

\* the coordinator's state as one value, for the helpers that rewrite it
CoordState ==
    [connected_devices |-> connected_devices,
     device_order |-> device_order,
     workload_assignments |-> workload_assignments,
     device_groups |-> device_groups]

\* the callbacks subscribers add: "log" returns, "broken" raises an Exception
Subscribers == {"log", "broken"}
Raises(callback) == callback = "broken"

\* _notify_callbacks without its try/except: the first callback that raises
\* ends the loop and the exception leaves
RECURSIVE NotifyUnguardedLoop(_, _)
NotifyUnguardedLoop(event_type, callbacks) ==
    IF callbacks = <<>> THEN [invoked |-> <<>>, raised |-> FALSE]
    ELSE IF Raises(Head(callbacks))
         THEN [invoked |-> <<<<event_type, Head(callbacks)>>>>, raised |-> TRUE]
         ELSE LET rest == NotifyUnguardedLoop(event_type, Tail(callbacks))
              IN  [invoked |-> <<<<event_type, Head(callbacks)>>>> \o rest.invoked,
                   raised |-> rest.raised]

NotifyCallbacksUnguarded(event_type) ==
    NotifyUnguardedLoop(event_type, DictGet(event_callbacks, event_type, <<>>))

\* _notify_callbacks: every callback of the event type is called, in the
\* order of the list; an Exception of a callback is logged and no exception
\* leaves
NotifyCallbacks(event_type) ==
    LET callbacks == DictGet(event_callbacks, event_type, <<>>)
    IN  [invoked |-> [i \in 1..Len(callbacks) |-> <<event_type, callbacks[i]>>],
         raised |-> FALSE]

\* the notifications of one operation, one after the other; an exception
\* that leaves one ends the operation
RECURSIVE NotifyEvents(_)
NotifyEvents(events) ==
    IF events = <<>> THEN [invoked |-> <<>>, raised |-> FALSE]
    ELSE LET first == NotifyCallbacks(Head(events))
         IN  IF first.raised THEN first
             ELSE LET rest == NotifyEvents(Tail(events))
                  IN  [invoked |-> first.invoked \o rest.invoked,
                       raised |-> rest.raised]

\* what an operation of the coordinator returned (ok, workload_id; raised
\* when an exception left it instead), the events it fired and the
\* callbacks it called
CoordOut(op, ok, workload_id, events) ==
    LET notified == NotifyEvents(events)
    IN  [op |-> op, ok |-> ok, workload_id |-> workload_id, events |-> events,
         invoked |-> notified.invoked, raised |-> notified.raised]

\* _cancel_device_workloads: marks the device's assigned/running workloads
\* cancelled (keeping, under critical_only, those of priority above 5) and
\* sets the device idle
CancelDeviceWorkloads(S, device_id, critical_only) ==
    LET cancelled(a) ==
            /\ a.device_id = device_id
            /\ a.status \in {"assigned", "running"}
            /\ ~(critical_only /\ DictGet(a.parameters, "priority", 0) > 5)
    IN  [S EXCEPT
            !.workload_assignments =
                [w \in DOMAIN S.workload_assignments |->
                    IF cancelled(S.workload_assignments[w])
                    THEN [S.workload_assignments[w] EXCEPT !.status = "cancelled"]
                    ELSE S.workload_assignments[w]],
            !.connected_devices =
                [d \in DOMAIN S.connected_devices |->
                    IF d = device_id
                    THEN [S.connected_devices[d] EXCEPT !.current_workload = <<>>,
                                                        !.status = "idle"]
                    ELSE S.connected_devices[d]]]

\* _update_device_groups
UpdateDeviceGroups(groups, device_id, device_type) ==
    DictSet(groups, device_type, DictGet(groups, device_type, {}) \cup {device_id})

\* _remove_from_device_groups
RemoveFromDeviceGroups(groups, device_id) ==
    [g \in DOMAIN groups |-> groups[g] \ {device_id}]

\* register_device without the capacity check
RegisterRefusedOnlyIfKnown(S, device_id) == device_id \in DOMAIN S.connected_devices

\* register_device refuses when the registry is full or the id is known
RegisterRefused(S, device_id) ==
    \/ Cardinality(DOMAIN S.connected_devices) >= MaxEdgeDevices
    \/ device_id \in DOMAIN S.connected_devices

RegisterDevice(device_id, device_type, capabilities) ==
    IF RegisterRefused(CoordState, device_id) THEN
        /\ coordOut' = CoordOut("register_device", FALSE, <<>>, <<>>)
        /\ UNCHANGED <<connected_devices, device_order, workload_assignments,
                       device_groups>>
    ELSE
        LET device_info ==
                [device_id |-> device_id,
                 device_type |-> device_type,
                 capabilities |-> capabilities,
                 status |-> "online",
                 last_seen |-> now,
                 connected_at |-> now,
                 current_workload |-> <<>>,
                 performance_metrics |-> <<>>]
        IN  /\ connected_devices' = DictSet(connected_devices, device_id, device_info)
            /\ device_order' = Append(device_order, device_id)
            /\ device_groups' = UpdateDeviceGroups(device_groups, device_id, device_type)
            /\ coordOut' = CoordOut("register_device", TRUE, <<>>, <<"device_connected">>)
            /\ UNCHANGED workload_assignments

\* unregister_device without its call of _cancel_device_workloads
UnregisteredKeepsWorkloads(S, device_id) ==
    [S EXCEPT
        !.device_groups = RemoveFromDeviceGroups(S.device_groups, device_id),
        !.connected_devices = DictDel(S.connected_devices, device_id),
        !.device_order = ListRemove(S.device_order, device_id)]

\* unregister_device of a registered device
Unregistered(S, device_id) ==
    LET C == CancelDeviceWorkloads(S, device_id, FALSE)
    IN  [C EXCEPT
            !.device_groups = RemoveFromDeviceGroups(C.device_groups, device_id),
            !.connected_devices = DictDel(C.connected_devices, device_id),
            !.device_order = ListRemove(C.device_order, device_id)]

SetCoordState(S) ==
    /\ connected_devices' = S.connected_devices
    /\ device_order' = S.device_order
    /\ workload_assignments' = S.workload_assignments
    /\ device_groups' = S.device_groups

UnregisterDevice(device_id) ==
    IF device_id \notin DOMAIN connected_devices THEN
        /\ coordOut' = CoordOut("unregister_device", FALSE, <<>>, <<>>)
        /\ UNCHANGED <<connected_devices, device_order, workload_assignments,
                       device_groups>>
    ELSE
        /\ SetCoordState(Unregistered(CoordState, device_id))
        /\ coordOut' = CoordOut("unregister_device", TRUE, <<>>, <<"device_disconnected">>)

\* _handle_overloaded_device / _handle_low_battery_device are inlined
UpdateDeviceStatus(device_id, status, metrics) ==
    IF device_id \notin DOMAIN connected_devices THEN
        /\ coordOut' = CoordOut("update_device_status", FALSE, <<>>, <<>>)
        /\ UNCHANGED <<connected_devices, device_order, workload_assignments,
                       device_groups>>
    ELSE
        LET info == connected_devices[device_id]
            updated ==
                [info EXCEPT
                    !.status = status,
                    !.last_seen = now,
                    !.performance_metrics =
                        IF metrics # <<>> THEN DictUpdate(@, metrics) ELSE @]
            S == [CoordState EXCEPT !.connected_devices[device_id] = updated]
        IN  CASE status = "overloaded" ->
                   /\ SetCoordState(CancelDeviceWorkloads(S, device_id, FALSE))
                   /\ coordOut' = CoordOut("update_device_status", TRUE, <<>>, <<"device_overloaded">>)
              [] status = "low_battery" ->
                   /\ SetCoordState(CancelDeviceWorkloads(S, device_id, TRUE))
                   /\ coordOut' = CoordOut("update_device_status", TRUE, <<>>, <<>>)
              [] OTHER ->
                   /\ SetCoordState(S)
                   /\ coordOut' = CoordOut("update_device_status", TRUE, <<>>, <<>>)

\* _can_handle_workload
CanHandleWorkload(device_info, workload_type) ==
    LET capabilities == device_info.capabilities
    IN  CASE workload_type = "training" ->
               /\ DictGet(capabilities, "memory_gb", 0) >= 1
               /\ DictGet(capabilities, "cpu_cores", 0) >= 1
          [] workload_type = "inference" ->
               DictGet(capabilities, "cpu_cores", 0) >= 1
          [] workload_type = "data_collection" ->
               DictGet(capabilities, "sensors", <<>>) # <<>>
          [] OTHER -> TRUE

\* _find_suitable_devices with device_filter = None: the candidates, in the
\* order of the registry
FindSuitableDevices(workload_type) ==
    SelectSeq(device_order,
              LAMBDA d : /\ connected_devices[d].status \in {"online", "idle"}
                         /\ CanHandleWorkload(connected_devices[d], workload_type))

Min(a, b) == IF a < b THEN a ELSE b
Max(a, b) == IF a > b THEN a ELSE b

\* _calculate_device_score, in tenths of a point: with whole cores, gigabytes,
\* percents and megabits every term is a whole number of tenths
\*   min(cpu_cores / 2.0, 1.0) * 20             = min(100 * cpu_cores, 200) / 10
\*   min(memory_gb / 4.0, 1.0) * 20             = min(50 * memory_gb, 200) / 10
\*   (1.0 - |cpu/100 - 0.6| - |mem/100 - 0.6|) * 30
\*                                = 3 * (100 - |cpu - 60| - |mem - 60|) / 10
\*   min(battery_level / 50.0, 1.0) * 20        = min(4 * battery_level, 200) / 10
\*   min(network_bandwidth_mbps / 50.0, 1.0) * 10 = min(2 * bandwidth, 100) / 10
CalculateDeviceScore(device_info) ==
    LET capabilities == device_info.capabilities
        metrics == device_info.performance_metrics
        cpu_score == Min(100 * DictGet(capabilities, "cpu_cores", 1), 200)
        memory_score == Min(50 * DictGet(capabilities, "memory_gb", 1), 200)
        avg_cpu == DictGet(metrics, "avg_cpu_usage", 50)
        avg_memory == DictGet(metrics, "avg_memory_usage", 50)
        performance_score == 3 * (100 - Abs(avg_cpu - 60) - Abs(avg_memory - 60))
        battery_level == DictGet(capabilities, "battery_level", 100)
        battery_score == IF battery_level < 100 THEN Min(4 * battery_level, 200) ELSE 200
        network_score ==
            Min(2 * DictGet(capabilities, "network_bandwidth_mbps", 10), 100)
    IN  cpu_score + memory_score
        + (IF metrics # <<>> THEN Max(performance_score, 0) ELSE 0)
        + battery_score + network_score

\* the loop of _select_optimal_device with >= for >: the last of the
\* candidates of the greatest score wins
RECURSIVE SelectLoopLastWins(_, _, _)
SelectLoopLastWins(candidates, best_device, best_score) ==
    IF candidates = <<>> THEN best_device
    ELSE LET score == CalculateDeviceScore(connected_devices[Head(candidates)])
         IN  IF score >= best_score
             THEN SelectLoopLastWins(Tail(candidates), <<Head(candidates)>>, score)
             ELSE SelectLoopLastWins(Tail(candidates), best_device, best_score)

\* the loop of _select_optimal_device: a later candidate wins only with a
\* strictly greater score
RECURSIVE SelectLoop(_, _, _)
SelectLoop(candidates, best_device, best_score) ==
    IF candidates = <<>> THEN best_device
    ELSE LET score == CalculateDeviceScore(connected_devices[Head(candidates)])
         IN  IF score > best_score
             THEN SelectLoop(Tail(candidates), <<Head(candidates)>>, score)
             ELSE SelectLoop(Tail(candidates), best_device, best_score)

\* _select_optimal_device: <<>> is None
SelectOptimalDevice(candidates) == SelectLoop(candidates, <<>>, 0 - 10)

AssignWorkload(workload_type, parameters) ==
    LET candidates == FindSuitableDevices(workload_type)
        best == SelectOptimalDevice(candidates)
    IN  IF candidates = <<>> \/ best = <<>> THEN
            /\ coordOut' = CoordOut("assign_workload", FALSE, <<>>, <<>>)
            /\ UNCHANGED <<connected_devices, device_order, workload_assignments,
                           device_groups>>
        ELSE
            LET best_device == best[1]
                workload_id == WorkloadId(now, best_device)
                assignment ==
                    [workload_id |-> workload_id,
                     device_id |-> best_device,
                     workload_type |-> workload_type,
                     parameters |-> parameters,
                     assigned_at |-> now,
                     expected_completion |-> now + ExpectedDuration,
                     status |-> "assigned"]
            IN  /\ \/ workload_id \in DOMAIN workload_assignments
                   \/ Cardinality(DOMAIN workload_assignments) < MaxWorkloads
                /\ workload_assignments' =
                       DictSet(workload_assignments, workload_id, assignment)
                /\ connected_devices' =
                       [connected_devices EXCEPT
                           ![best_device].current_workload = <<workload_id>>,
                           ![best_device].status = "busy"]
                /\ coordOut' = CoordOut("assign_workload", TRUE, <<workload_id>>, <<>>)
                /\ UNCHANGED <<device_order, device_groups>>

\* the device of a finished workload is freed, if it is still registered
FreeDevice(devices, device_id) ==
    [d \in DOMAIN devices |->
        IF d = device_id
        THEN [devices[d] EXCEPT !.current_workload = <<>>, !.status = "idle"]
        ELSE devices[d]]

CompleteWorkload(workload_id) ==
    IF workload_id \notin DOMAIN workload_assignments THEN
        /\ coordOut' = CoordOut("complete_workload", FALSE, <<>>, <<>>)
        /\ UNCHANGED <<connected_devices, device_order, workload_assignments,
                       device_groups>>
    ELSE
        /\ workload_assignments' =
               [workload_assignments EXCEPT ![workload_id].status = "completed"]
        /\ connected_devices' =
               FreeDevice(connected_devices, workload_assignments[workload_id].device_id)
        /\ coordOut' = CoordOut("complete_workload", TRUE, <<>>, <<"workload_completed">>)
        /\ UNCHANGED <<device_order, device_groups>>

\* _check_device_health: the devices not seen for more than device_timeout,
\* in the order of the registry, are unregistered one after the other
RECURSIVE UnregisterAll(_, _)
UnregisterAll(S, device_ids) ==
    IF device_ids = <<>> THEN S
    ELSE UnregisterAll(Unregistered(S, Head(device_ids)), Tail(device_ids))

CheckDeviceHealth(S) ==
    LET disconnected_devices ==
            SelectSeq(S.device_order,
                      LAMBDA d : now - S.connected_devices[d].last_seen > DeviceTimeout)
    IN  [state |-> UnregisterAll(S, disconnected_devices),
         events |-> [i \in 1..Len(disconnected_devices) |-> "device_disconnected"]]

\* _check_workload_timeouts: a running workload past its expected completion
\* fails and frees its device
CheckWorkloadTimeouts(S) ==
    LET timed_out(a) == a.status = "running" /\ now > a.expected_completion
        timed_out_devices ==
            {S.workload_assignments[w].device_id :
                w \in {x \in DOMAIN S.workload_assignments :
                          timed_out(S.workload_assignments[x])}}
    IN  [S EXCEPT
            !.workload_assignments =
                [w \in DOMAIN S.workload_assignments |->
                    IF timed_out(S.workload_assignments[w])
                    THEN [S.workload_assignments[w] EXCEPT !.status = "failed"]
                    ELSE S.workload_assignments[w]],
            !.connected_devices =
                [d \in DOMAIN S.connected_devices |->
                    IF d \in timed_out_devices
                    THEN [S.connected_devices[d] EXCEPT !.current_workload = <<>>,
                                                        !.status = "idle"]
                    ELSE S.connected_devices[d]]]

\* one iteration of EdgeCoordinator._monitoring_loop
CoordinatorMonitoringLoop ==
    LET health == CheckDeviceHealth(CoordState)
    IN  /\ SetCoordState(CheckWorkloadTimeouts(health.state))
        /\ coordOut' = CoordOut("monitoring_loop", TRUE, <<>>, health.events)
        /\ UNCHANGED <<now, cacheVars, aggVars, event_callbacks, nodeVars, monitorVars>>

RegisterDeviceFrom(devices) ==
    /\ \E device_id \in devices :
          RegisterDevice(device_id, DeviceType(device_id), Capabilities(device_id))
    /\ UNCHANGED <<now, cacheVars, aggVars, event_callbacks, nodeVars, monitorVars>>

RegisterDeviceStep == RegisterDeviceFrom(Devices)

UnregisterDeviceStep ==
    /\ \E device_id \in Devices : UnregisterDevice(device_id)
    /\ UNCHANGED <<now, cacheVars, aggVars, event_callbacks, nodeVars, monitorVars>>

UpdateDeviceStatusStep ==
    /\ \E device_id \in Devices, status \in ReportedStatuses :
          \E metrics \in MetricsArgs(device_id) :
              UpdateDeviceStatus(device_id, status, metrics)
    /\ UNCHANGED <<now, cacheVars, aggVars, event_callbacks, nodeVars, monitorVars>>

AssignWorkloadStep ==
    /\ \E workload \in WorkloadArgs : AssignWorkload(workload[1], workload[2])
    /\ UNCHANGED <<now, cacheVars, aggVars, event_callbacks, nodeVars, monitorVars>>

CompleteWorkloadStep ==
    /\ \E workload_id \in DOMAIN workload_assignments \cup {UnknownWorkload} :
          CompleteWorkload(workload_id)
    /\ UNCHANGED <<now, cacheVars, aggVars, event_callbacks, nodeVars, monitorVars>>

\* add_event_callback: an unknown event type is ignored
AddEventCallback(event_type, callback) ==
    /\ event_callbacks' =
           IF event_type \in DOMAIN event_callbacks
           THEN [event_callbacks EXCEPT ![event_type] = Append(@, callback)]
           ELSE event_callbacks
    /\ UNCHANGED <<connected_devices, device_order, workload_assignments,
                   device_groups, coordOut>>

\* the callbacks subscribed, over all event types
RECURSIVE CallbackCount(_)
CallbackCount(event_types) ==
    IF event_types = {} THEN 0
    ELSE LET e == CHOOSE x \in event_types : TRUE
         IN  Len(event_callbacks[e]) + CallbackCount(event_types \ {e})

AddEventCallbackStep ==
    /\ CallbackCount(EventTypes) < MaxCallbacks
    /\ \E event_type \in EventTypes \cup {"device_idle"}, callback \in Subscribers :
          AddEventCallback(event_type, callback)
    /\ UNCHANGED <<now, cacheVars, aggVars, nodeVars, monitorVars>>

CoordInit ==
    /\ connected_devices = <<>>
    /\ device_order = <<>>
    /\ workload_assignments = <<>>
    /\ device_groups = <<>>
    /\ coordOut = CoordOut("none", FALSE, <<>>, <<>>)
    /\ event_callbacks = [event_type \in EventTypes |-> <<>>]

(***************************************************************************)
(* Fog Orchestrator: what it does with the aggregator                      *)
(***************************************************************************)
\* submit_training_update -> _process_training_update: stamps the update
\* with datetime.now() and hands it to the aggregator; always returns True
SubmitTrainingUpdate(device_id, kind) ==
    /\ AddEdgeUpdate(EdgeUpdate(device_id, kind, now))
    /\ submitted' = IF kind = "valid" THEN submitted \cup {device_id} ELSE submitted
    /\ UNCHANGED <<now, cacheVars, coordVars, nodeVars, monitorVars, strategy, min_clients, current_round, aggregation_history,
                   round_start_time, aggregation_task, task_waited>>

SubmitTrainingUpdateStep ==
    \E device_id \in Clients, kind \in UpdateKinds : SubmitTrainingUpdate(device_id, kind)

\* FogNode.start: a node that is running returns at once; otherwise the
\* components and the interfaces start and _setup_event_handlers adds the
\* node's three callbacks to the coordinator
SetupEventHandlers(callbacks) ==
    [event_type \in DOMAIN callbacks |->
        CASE event_type = "device_connected" ->
               Append(callbacks[event_type], "on_device_connected")
          [] event_type = "device_disconnected" ->
               Append(callbacks[event_type], "on_device_disconnected")
          [] event_type = "workload_completed" ->
               Append(callbacks[event_type], "on_workload_completed")
          [] OTHER -> callbacks[event_type]]

StartNode ==
    /\ IF running THEN UNCHANGED <<running, event_callbacks>>
       ELSE /\ Len(event_callbacks["device_connected"]) < MaxStarts
            /\ running' = TRUE
            /\ event_callbacks' = SetupEventHandlers(event_callbacks)
    /\ UNCHANGED <<now, cacheVars, aggVars, connected_devices, device_order,
                   workload_assignments, device_groups, coordOut, edgeOut,
                   monitorVars>>

\* FogNode.stop: the interfaces and components stop and the aggregator's
\* cleanup cancels its task; the callbacks stay with the coordinator
StopNode ==
    /\ IF ~running THEN UNCHANGED <<running, aggregation_task>>
       ELSE /\ running' = FALSE
            /\ aggregation_task' =
                   IF TaskActive THEN "cancelled" ELSE aggregation_task
    /\ UNCHANGED <<now, cacheVars, coordVars, edgeOut, monitorVars, strategy,
                   min_clients, current_round, pending_updates,
                   aggregation_history, round_start_time, task_waited, aggOut,
                   submitted>>

\* EdgeInterface._send_to_device on a started interface: one message
\* published to the device
SendToDevice(device_id, message_type, body) == <<<<device_id, message_type, body>>>>

\* EdgeInterface._handle_training_update, for a training/update message of a
\* device: the update goes through submit_training_update and its outcome
\* (always True) decides the status of the training/ack
HandleTrainingUpdate(device_id, kind) ==
    /\ running
    /\ AddEdgeUpdate(EdgeUpdate(device_id, kind, now))
    /\ submitted' = IF kind = "valid" THEN submitted \cup {device_id} ELSE submitted
    /\ LET success == TRUE
       IN  edgeOut' = EdgeOut(SendToDevice(device_id, "training/ack",
                                           IF success THEN "received" ELSE "failed"),
                              <<<<"training/update", device_id>>>>)
    /\ UNCHANGED <<now, cacheVars, coordVars, running, monitorVars, strategy,
                   min_clients, current_round, aggregation_history,
                   round_start_time, aggregation_task, task_waited>>

HandleTrainingUpdateStep ==
    \E device_id \in Clients, kind \in UpdateKinds : HandleTrainingUpdate(device_id, kind)

\* the default model_id of get_latest_model, "global", written as ModelIds
\* writes it
GlobalModelId == <<"g">>

\* the version a model/request names: <<>> when the payload has none
VersionArgs == {<<>>} \cup {<<version>> : version \in Versions}

\* EdgeInterface._handle_model_request -> FogNode.request_model.  With a
\* version, request_model calls get_model(model_version), one argument short
\* of get_model(model_id, version): the TypeError leaves the handler and
\* _handle_message logs it, nothing is read and nothing is sent.  Without a
\* version the latest global model is looked up and sent, or model/error.
HandleModelRequest(device_id, version) ==
    /\ running
    /\ IF version # <<>> THEN
           /\ edgeOut' = EdgeOut(<<>>, <<<<"model/request", device_id>>>>)
           /\ UNCHANGED <<now, cache, current_size, access_order, stats,
                          cache_keys, cacheOut>>
       ELSE
           /\ GetLatestModel(GlobalModelId)
           /\ edgeOut' =
                  EdgeOut(IF cacheOut'.ok /\ cacheOut'.data # NoData
                          THEN SendToDevice(device_id, "model/update", cacheOut'.data)
                          ELSE SendToDevice(device_id, "model/error", NoData),
                          <<<<"model/request", device_id>>>>)
    /\ UNCHANGED <<aggVars, coordVars, running, monitorVars, max_size_bytes, calls>>

HandleModelRequestStep ==
    \E device_id \in Workers, version \in VersionArgs :
        HandleModelRequest(device_id, version)

\* CloudInterface._process_global_model_update, for a model of the cloud with
\* weights and a version: the model is cached and broadcast to the devices
ProcessGlobalModelUpdate(model_id, version, weights) ==
    /\ running
    /\ CacheModel(model_id, weights, version)
    /\ edgeOut' = EdgeOut(SendToDevice("broadcast", "model/update", weights), <<>>)
    /\ UNCHANGED <<aggVars, coordVars, running, monitorVars, max_size_bytes, calls>>

ProcessGlobalModelUpdateFrom(model_ids) ==
    \E model_id \in model_ids, version \in Versions :
        ProcessGlobalModelUpdate(model_id, version, [len |-> 500])

ProcessGlobalModelUpdateStep == ProcessGlobalModelUpdateFrom(ModelIds)

\* the cache and its counters as one value, for the callbacks that read the
\* cache one after the other within one operation
NodeCache == [st |-> CState, stats |-> stats]

\* ModelCache.get on such a value: the value it leaves, what it returns
GetIn(C, key) ==
    LET missed == [C.stats EXCEPT !.total_requests = @ + 1, !.misses = @ + 1]
    IN  IF key \notin DOMAIN C.st.cache
        THEN [st |-> C.st, stats |-> missed, ok |-> FALSE, data |-> NoData]
        ELSE IF Expired(C.st.cache[key], now)
        THEN [st |-> RemoveEntry(C.st, key), stats |-> missed,
              ok |-> FALSE, data |-> NoData]
        ELSE [st |-> [C.st EXCEPT !.cache[key].last_accessed = now,
                                  !.access_order = MoveToEnd(@, key)],
              stats |-> [C.stats EXCEPT !.total_requests = @ + 1, !.hits = @ + 1],
              ok |-> TRUE, data |-> C.st.cache[key].data]

\* the loop of get_latest_model over the entries of such a value
RECURSIVE LatestLoopIn(_, _, _, _)
LatestLoopIn(entries, keys, prefix, latest) ==
    IF keys = <<>> THEN latest
    ELSE LET key == Head(keys)
             entry == entries[key]
             newer == /\ StartsWith(key, prefix)
                      /\ entry.metadata # <<>>
                      /\ "type" \in DOMAIN entry.metadata
                      /\ entry.metadata.type = "model_weights"
                      /\ (latest = <<>> \/ entry.created_at > latest[2])
         IN  LatestLoopIn(entries, Tail(keys), prefix,
                          IF newer THEN <<entry.metadata.version, entry.created_at>>
                          ELSE latest)

\* get_latest_model on such a value
GetLatestModelIn(C, model_id) ==
    LET latest == LatestLoopIn(C.st.cache, C.st.cache_keys,
                               CacheKey(model_id, <<>>), <<>>)
    IN  IF latest # <<>> /\ latest[1] # <<>>
        THEN GetIn(C, CacheKey(model_id, latest[1]))
        ELSE [st |-> C.st, stats |-> C.stats, ok |-> FALSE, data |-> NoData]

\* FogNode._on_device_connected -> _send_cached_models_to_device, called
\* once for each time it is subscribed: each call looks the latest global
\* model up and, if there is one, sends it to the device
RECURSIVE OnDeviceConnected(_, _, _)
OnDeviceConnected(C, device_id, times) ==
    IF times = 0 THEN [st |-> C.st, stats |-> C.stats, published |-> <<>>]
    ELSE LET latest_model == GetLatestModelIn(C, GlobalModelId)
             rest == OnDeviceConnected([st |-> latest_model.st,
                                        stats |-> latest_model.stats],
                                       device_id, times - 1)
         IN  [st |-> rest.st, stats |-> rest.stats,
              published |->
                  (IF latest_model.ok /\ latest_model.data # NoData
                   THEN SendToDevice(device_id, "model/update", latest_model.data)
                   ELSE <<>>) \o rest.published]

\* the times an operation of the coordinator called a callback
TimesInvoked(out, callback) ==
    Cardinality({i \in 1..Len(out.invoked) : out.invoked[i][2] = callback})

\* EdgeInterface._handle_device_registration, for a device/register message:
\* FogNode.register_edge_device registers the device with the coordinator,
\* whose device_connected callbacks run, and the register/response follows
HandleDeviceRegistration(device_id) ==
    /\ running
    /\ RegisterDevice(device_id, DeviceType(device_id), Capabilities(device_id))
    /\ LET sent == OnDeviceConnected(NodeCache, device_id,
                                     TimesInvoked(coordOut', "on_device_connected"))
       IN  /\ sent.stats.total_requests <= MaxRequests
           /\ cache' = sent.st.cache
           /\ current_size' = sent.st.current_size
           /\ access_order' = sent.st.access_order
           /\ cache_keys' = sent.st.cache_keys
           /\ stats' = sent.stats
           /\ edgeOut' =
                  EdgeOut(sent.published
                          \o SendToDevice(device_id, "register/response",
                                          IF coordOut'.ok THEN "success" ELSE "failed"),
                          <<<<"device/register", device_id>>>>)
    /\ UNCHANGED <<now, aggVars, event_callbacks, running, monitorVars,
                   max_size_bytes, calls, cacheOut>>

HandleDeviceRegistrationStep ==
    \E device_id \in Workers : HandleDeviceRegistration(device_id)

\* FogNode.assign_task without a device_filter: the coordinator assigns the
\* workload and its id is returned; nothing is handed to the edge interface
AssignTask(task_type, parameters) ==
    /\ running
    /\ AssignWorkload(task_type, parameters)
    /\ edgeOut' = EdgeOut(<<>>, <<>>)
    /\ UNCHANGED <<now, cacheVars, aggVars, event_callbacks, running, monitorVars>>

AssignTaskStep ==
    \E workload \in WorkloadArgs : AssignTask(workload[1], workload[2])

\* EdgeInterface._handle_device_heartbeat: the status and the metrics of the
\* payload go to the coordinator's update_device_status
HandleDeviceHeartbeat(device_id, status, metrics) ==
    /\ running
    /\ UpdateDeviceStatus(device_id, status, metrics)
    /\ edgeOut' = EdgeOut(<<>>, <<<<"device/heartbeat", device_id>>>>)
    /\ UNCHANGED <<now, cacheVars, aggVars, event_callbacks, running, monitorVars>>

\* EdgeInterface._handle_task_result: a payload with a workload_id completes
\* that workload (<<>> is a payload without one)
HandleTaskResult(device_id, workload_id) ==
    /\ running
    /\ IF workload_id # <<>> THEN CompleteWorkload(workload_id[1])
       ELSE UNCHANGED <<connected_devices, device_order, workload_assignments,
                        device_groups, coordOut>>
    /\ edgeOut' = EdgeOut(<<>>, <<<<"task/result", device_id>>>>)
    /\ UNCHANGED <<now, cacheVars, aggVars, event_callbacks, running, monitorVars>>

\* A topic is written as the sequence of its levels and of the "/" between
\* them.  base_topic is f"fog/{fog_node.node_id}".
NodeId == "fog1"
BaseTopic == <<"fog", "/", NodeId>>

\* str.split('/'): the levels of a topic, "" where two separators meet
RECURSIVE SplitLoop(_, _, _)
SplitLoop(tokens, part, parts) ==
    IF tokens = <<>> THEN Append(parts, part)
    ELSE IF Head(tokens) = "/" THEN SplitLoop(Tail(tokens), "", Append(parts, part))
    ELSE SplitLoop(Tail(tokens), Head(tokens), parts)
Split(topic) == SplitLoop(topic, "", <<>>)

\* the topic filters _on_mqtt_connect subscribes to
Subscriptions ==
    {BaseTopic \o <<"/", "device", "/", "+", "/", "register">>,
     BaseTopic \o <<"/", "device", "/", "+", "/", "heartbeat">>,
     BaseTopic \o <<"/", "training", "/", "+", "/", "update">>,
     BaseTopic \o <<"/", "model", "/", "+", "/", "request">>,
     BaseTopic \o <<"/", "task", "/", "+", "/", "result">>}

\* the broker delivers a message to a subscription whose filter matches the
\* topic level by level, "+" standing for any one level
TopicMatches(filter, topic) ==
    LET f == Split(filter)
        t == Split(topic)
    IN  /\ Len(f) = Len(t)
        /\ \A i \in 1..Len(f) : f[i] = "+" \/ f[i] = t[i]

\* self.message_handlers: the handler, by its name, under each message type
MessageHandlers ==
    [message_type \in {<<"device", "/", "register">>, <<"device", "/", "heartbeat">>,
                       <<"training", "/", "update">>, <<"model", "/", "request">>,
                       <<"task", "/", "result">>} |->
        CASE message_type[3] = "register"  -> "device/register"
          [] message_type[3] = "heartbeat" -> "device/heartbeat"
          [] message_type[3] = "update"    -> "training/update"
          [] message_type[3] = "request"   -> "model/request"
          [] OTHER                         -> "task/result"]

\* EdgeInterface._handle_message: the handler of the message type runs with
\* the device id; a type without a handler is logged and dropped
HandleMessage(message_type, device_id) ==
    IF message_type \notin DOMAIN MessageHandlers THEN
        /\ edgeOut' = EdgeOut(<<>>, <<>>)
        /\ UNCHANGED <<now, cacheVars, aggVars, coordVars, running, monitorVars>>
    ELSE
        CASE MessageHandlers[message_type] = "device/register" ->
                 HandleDeviceRegistration(device_id)
          [] MessageHandlers[message_type] = "device/heartbeat" ->
                 \E status \in ReportedStatuses, metrics \in MetricsArgs(device_id) :
                     HandleDeviceHeartbeat(device_id, status, metrics)
          [] MessageHandlers[message_type] = "training/update" ->
                 \E kind \in UpdateKinds : HandleTrainingUpdate(device_id, kind)
          [] MessageHandlers[message_type] = "model/request" ->
                 \E version \in VersionArgs : HandleModelRequest(device_id, version)
          [] OTHER ->
                 \E workload_id \in {<<>>} \cup {<<w>> : w \in DOMAIN workload_assignments} :
                     HandleTaskResult(device_id, workload_id)

\* EdgeInterface._on_mqtt_message, for a message the broker delivers on a
\* topic: the last two levels make the message type, the last but one is the
\* device id, and the message is handled as a task of the event loop
OnMqttMessage(topic) ==
    /\ running
    /\ \E filter \in Subscriptions : TopicMatches(filter, topic)
    /\ LET topic_parts == Split(topic)
           n == Len(topic_parts)
       IN  IF n >= 4 THEN
               LET message_type == <<topic_parts[n - 1], "/", topic_parts[n]>>
                   device_id == IF n > 4 THEN topic_parts[n - 1] ELSE "unknown"
               IN  HandleMessage(message_type, device_id)
           ELSE
               /\ edgeOut' = EdgeOut(<<>>, <<>>)
               /\ UNCHANGED <<now, cacheVars, aggVars, coordVars, running, monitorVars>>

\* the topic a device publishes a message of a kind on:
\* fog/{node_id}/{category}/{device_id}/{leaf}
DeviceTopic(category, device_id, leaf) ==
    BaseTopic \o <<"/", category, "/", device_id, "/", leaf>>

\* the kinds of message of the devices, <<category, leaf>>, and the devices
\* that publish: two of them are called "device" and "task"
MessageKinds == {<<"device", "register">>, <<"device", "heartbeat">>,
                 <<"training", "update">>, <<"model", "request">>,
                 <<"task", "result">>}
TopicDevices == {"d1", "device", "task"}

\* what is published on the broker: the messages of the devices, and a
\* status message nobody subscribes to
PublishedTopics ==
    {DeviceTopic(kind[1], device_id, kind[2]) : kind \in MessageKinds, device_id \in TopicDevices}
        \cup {BaseTopic \o <<"/", "status">>}

OnMqttMessageStep == \E topic \in PublishedTopics : OnMqttMessage(topic)

\* One iteration of FogNode._monitoring_loop: _check_aggregation_triggers,
\* then _cleanup_old_data
MonitoringLoop ==
    /\ IF Len(pending_updates) >= min_clients /\ TaskIdle
       THEN StartAggregationRound
       ELSE UNCHANGED <<current_round, round_start_time, pending_updates,
                        aggregation_task, task_waited>>
    /\ CleanupExpired
    /\ UNCHANGED <<strategy, min_clients, aggregation_history, aggOut, submitted, coordVars, nodeVars, monitorVars,
                   max_size_bytes, calls>>

\* RegionalAggregator.__init__, for a strategy and a min_clients of the sets
AggConstructed(strategies, quorums) ==
    /\ strategy \in strategies
    /\ min_clients \in quorums
    /\ current_round = 0
    /\ pending_updates = <<>>
    /\ aggregation_history = <<>>
    /\ round_start_time = <<>>
    /\ aggregation_task = "none"
    /\ task_waited = 0
    /\ aggOut = [admitted |-> FALSE]
    /\ submitted = {}

AggInit(strategies) == AggConstructed(strategies, {MinClients})

(***************************************************************************)
(* Resource Monitor (src/fog_node/resource_monitor.py)                     *)
(***************************************************************************)
\* timedelta(hours=24), in units of the clock
MetricsRetention == 1

\* what a call leaves behind: whether it went through, the time it returned
\* at, and the alerts it logged
MonitorOut(op, ok, at, alerts) == [op |-> op, ok |-> ok, at |-> at, alerts |-> alerts]

\* what _collect_metrics reads from psutil: <<cpu_percent>>, or <<>> when a
\* psutil call raises (net_connections without the rights to list them)
Samples == {<<50>>, <<95>>, <<>>}

\* _collect_metrics: the ResourceMetrics of a sample, stamped datetime.now()
CollectMetrics(sample) == [timestamp |-> now, cpu_percent |-> sample[1]]

\* the metrics of a history with m.timestamp > cutoff_time
RECURSIVE RecentMetrics(_, _)
RecentMetrics(history, cutoff_time) ==
    IF history = <<>> THEN <<>>
    ELSE IF Head(history).timestamp > cutoff_time
         THEN <<Head(history)>> \o RecentMetrics(Tail(history), cutoff_time)
         ELSE RecentMetrics(Tail(history), cutoff_time)

\* _check_resource_alerts: the alerts logged for a ResourceMetrics
CheckResourceAlerts(metrics) ==
    IF metrics.cpu_percent > 90 THEN {"cpu_high"} ELSE {}

\* ResourceMonitor.update_metrics: collect, append, keep the last 24 hours,
\* check the alerts; an exception of any of these is logged and the rest of
\* the try block is skipped
UpdateMetrics(sample) ==
    /\ IF sample = <<>> THEN
           /\ monitorOut' = MonitorOut("update_metrics", FALSE, now, {})
           /\ UNCHANGED metrics_history
       ELSE
           LET metrics == CollectMetrics(sample)
               cutoff_time == now - MetricsRetention
           IN  /\ metrics_history' =
                      RecentMetrics(Append(metrics_history, metrics), cutoff_time)
               /\ monitorOut' = MonitorOut("update_metrics", TRUE, now,
                                           CheckResourceAlerts(metrics))
    /\ UNCHANGED <<now, cacheVars, aggVars, coordVars, nodeVars, is_monitoring>>

\* a caller, or the loop _monitor_resources of a started monitor, updates the
\* metrics
UpdateMetricsStep ==
    /\ Len(metrics_history) < MaxMetrics
    /\ \E sample \in Samples : UpdateMetrics(sample)

\* ResourceMonitor.start and its loops, ResourceMonitor.stop
StartMonitor ==
    /\ is_monitoring' = TRUE
    /\ UNCHANGED <<now, cacheVars, aggVars, coordVars, nodeVars, metrics_history,
                   monitorOut>>
StopMonitor ==
    /\ is_monitoring' = FALSE
    /\ UNCHANGED <<now, cacheVars, aggVars, coordVars, nodeVars, metrics_history,
                   monitorOut>>

\* one round of the loop _cleanup_old_metrics, which wakes once an hour
CleanupOldMetrics ==
    /\ is_monitoring
    /\ metrics_history' = RecentMetrics(metrics_history, now - MetricsRetention)
    /\ UNCHANGED <<now, cacheVars, aggVars, coordVars, nodeVars, is_monitoring,
                   monitorOut>>

(***************************************************************************)
(* Specifications                                                          *)
(***************************************************************************)
\* FogNode.__init__ and EdgeInterface.__init__: not started, nothing sent
NodeInit ==
    /\ running = FALSE
    /\ edgeOut = EdgeOut(<<>>, <<>>)

\* ResourceMonitor.__init__
MonitorInit ==
    /\ metrics_history = <<>>
    /\ is_monitoring = FALSE
    /\ monitorOut = MonitorOut("init", TRUE, 0, {})

Init ==
    /\ now = 0
    /\ CacheInit
    /\ AggInit({"fedavg"})
    /\ CoordInit
    /\ NodeInit
    /\ MonitorInit

CacheNext ==
    \/ Tick
    \/ PutStep
    \/ GetStep
    \/ ContainsStep
    \/ RemoveStep
    \/ ClearStep
    \/ CleanupExpiredStep

\* The Model Cache on its own (the aggregator stays as constructed)
CacheSpec == Init /\ [][CacheNext]_vars

\* A cache of 1000 bytes and a client calling put and get
ScenarioInit ==
    /\ now = 0
    /\ CacheConstructed(1000)
    /\ AggInit({"fedavg"})
    /\ CoordInit
    /\ NodeInit
    /\ MonitorInit
ScenarioNext ==
    \/ ClientPut(Keys, ScenarioDatas)
    \/ ClientGet(Keys)
ScenarioSpec == ScenarioInit /\ [][ScenarioNext]_vars

\* The cache, its clock and a client that stores every entry with ttl None
TtlNext ==
    \/ Tick
    \/ ClientPut({"a", "b"}, UnitData)
    \/ ClientGet({"a", "b"})
    \/ ClientCleanupExpired
TtlSpec == Init /\ [][TtlNext]_vars

\* A cache of 1000 bytes holding versions of models, and its clock
ModelStoreNext ==
    \/ Tick
    \/ CacheModelStep
    \/ GetLatestModelStep
ModelStoreSpec == ScenarioInit /\ [][ModelStoreNext]_vars

AggregatorInit ==
    /\ now = 0
    /\ CacheInit
    /\ AggInit(Strategies)
    /\ CoordInit
    /\ NodeInit
    /\ MonitorInit

AggregatorNext ==
    \/ RoundTick
    \/ StartRound
    \/ AddEdgeUpdateStep
    \/ CoordinateAggregationStep
    \/ AggregatorCleanup

\* The Regional Aggregator on its own, driven by its callers and by its
\* coordination task
AggregatorSpec == AggregatorInit /\ [][AggregatorNext]_vars

\* A FedAvg aggregator whose clients all train the same model
FedAvgNext ==
    \/ RoundTick
    \/ StartRound
    \/ AddEdgeUpdateFrom(SameModelClients, {"valid"})
    \/ CoordinateAggregationStep
FedAvgSpec == Init /\ [][FedAvgNext]_vars

\* An ADAPTIVE aggregator constructed with min_clients 1 or 2
AdaptiveInit ==
    /\ now = 0
    /\ CacheInit
    /\ AggConstructed({"adaptive"}, {1, 2})
    /\ CoordInit
    /\ NodeInit
    /\ MonitorInit
AdaptiveNext ==
    \/ RoundTick
    \/ StartRound
    \/ AddEdgeUpdateFrom(AdaptiveClients, {"valid"})
    \/ CoordinateAggregationStep
AdaptiveSpec == AdaptiveInit /\ [][AdaptiveNext]_vars

\* An aggregator of any strategy whose clients run three different models
MixedModelNext ==
    \/ RoundTick
    \/ StartRound
    \/ AddEdgeUpdateFrom(MixedModelClients, {"valid"})
    \/ CoordinateAggregationStep
MixedModelSpec == AggregatorInit /\ [][MixedModelNext]_vars

OrchestratorInit ==
    /\ now = 0
    /\ CacheInit
    /\ AggInit({"fedavg"})
    /\ CoordInit
    /\ NodeInit
    /\ MonitorInit

OrchestratorNext ==
    \/ RoundTick
    \/ SubmitTrainingUpdateStep
    \/ MonitoringLoop
    \/ CoordinateAggregationStep
    \/ StartRound

\* The aggregator as the FogNode drives it: updates come in through
\* submit_training_update, the monitoring loop checks the trigger, the
\* coordination task runs.  StartRound stands for a caller outside FogNode
\* (FogNode itself calls start_aggregation_round from the monitoring loop only).
OrchestratorSpec == OrchestratorInit /\ [][OrchestratorNext]_vars

\* The event loop runs a task that is ready: the coordination task wakes from
\* its sleep and the monitoring loop comes round again.  Nothing obliges a
\* device to submit or an outside caller to call.
FairOrchestratorSpec ==
    /\ OrchestratorSpec
    /\ WF_vars(CoordinateAggregationStep)
    /\ WF_vars(MonitoringLoop)

AckNext ==
    \/ RoundTick
    \/ StartNode
    \/ StopNode
    \/ StartRound
    \/ HandleTrainingUpdateStep
    \/ CoordinateAggregationStep

\* A Fog Node whose devices send training updates over the edge interface
AckSpec == Init /\ [][AckNext]_vars

ModelRequestNext ==
    \/ Tick
    \/ StartNode
    \/ ProcessGlobalModelUpdateStep
    \/ HandleModelRequestStep

\* A Fog Node whose cache receives models and whose devices request them
ModelRequestSpec == ScenarioInit /\ [][ModelRequestNext]_vars

ConnectNext ==
    \/ Tick
    \/ StartNode
    \/ StopNode
    \/ ProcessGlobalModelUpdateFrom({GlobalModelId})
    \/ HandleDeviceRegistrationStep
    \/ UnregisterDeviceStep

\* A Fog Node that is started and stopped, receives models of the cloud and
\* has devices that register and leave
ConnectSpec == ScenarioInit /\ [][ConnectNext]_vars

DispatchNext ==
    \/ RoundTick
    \/ StartNode
    \/ HandleDeviceRegistrationStep
    \/ UpdateDeviceStatusStep
    \/ AssignTaskStep

\* A started Fog Node whose callers assign tasks to the registered devices
DispatchSpec == Init /\ [][DispatchNext]_vars

TransportNext ==
    \/ RoundTick
    \/ StartNode
    \/ AssignTaskStep
    \/ OnMqttMessageStep

\* A started Fog Node whose edge interface receives what the devices publish
\* while callers assign tasks
TransportSpec == Init /\ [][TransportNext]_vars

MonitorNext ==
    \/ Tick
    \/ StartMonitor
    \/ StopMonitor
    \/ UpdateMetricsStep
    \/ CleanupOldMetrics

\* The Resource Monitor on its own, with its callers and its loops
MonitorSpec == Init /\ [][MonitorNext]_vars

CoordNext ==
    \/ RoundTick
    \/ RegisterDeviceFrom(Workers)
    \/ UnregisterDeviceStep
    \/ UpdateDeviceStatusStep
    \/ AssignWorkloadStep
    \/ CompleteWorkloadStep
    \/ CoordinatorMonitoringLoop

\* The Edge Coordinator on its own, driven by its callers and by its
\* monitoring loop
CoordSpec == Init /\ [][CoordNext]_vars

RegistryNext ==
    \/ RoundTick
    \/ RegisterDeviceStep
    \/ UnregisterDeviceStep
    \/ UpdateDeviceStatusStep
    \/ CoordinatorMonitoringLoop

SelectionNext ==
    \/ RoundTick
    \/ RegisterDeviceFrom(SelectionDevices)
    \/ UnregisterDeviceStep
    \/ AssignWorkloadStep
    \/ CompleteWorkloadStep

\* The Edge Coordinator with two devices of the same make among those that
\* register: workloads are assigned and completed, no device reports
SelectionSpec == Init /\ [][SelectionNext]_vars

TimeoutNext ==
    \/ RoundTick
    \/ RegisterDeviceFrom(Workers)
    \/ AssignWorkloadStep
    \/ CompleteWorkloadStep
    \/ CoordinatorMonitoringLoop

\* The Edge Coordinator with devices that register and then fall silent:
\* workloads are assigned and completed and the monitoring loop runs
TimeoutSpec == Init /\ [][TimeoutNext]_vars

ExpiryNext ==
    \/ Tick
    \/ RegisterDeviceFrom(Workers)
    \/ UpdateDeviceStatusStep
    \/ AssignWorkloadStep
    \/ CoordinatorMonitoringLoop

\* The Edge Coordinator over a time long enough for a workload to pass its
\* expected completion, with devices that keep reporting
ExpirySpec == Init /\ [][ExpiryNext]_vars

CallbackNext ==
    \/ AddEventCallbackStep
    \/ RegisterDeviceFrom({"d1"})
    \/ UnregisterDeviceStep
    \/ UpdateDeviceStatusStep
    \/ AssignWorkloadStep
    \/ CompleteWorkloadStep

\* The Edge Coordinator with subscribers to its events, some of which raise
CallbackSpec == Init /\ [][CallbackNext]_vars

\* The device registry of the Edge Coordinator on its own: devices come, report
\* and go, and no workload is assigned
RegistrySpec == Init /\ [][RegistryNext]_vars

(***************************************************************************)
(* Properties of the Model Cache                                           *)
(***************************************************************************)
RECURSIVE EntryBytes(_)
EntryBytes(c) ==
    IF DOMAIN c = {} THEN 0
    ELSE LET k == CHOOSE x \in DOMAIN c : TRUE
         IN  c[k].size_bytes + EntryBytes([x \in (DOMAIN c) \ {k} |-> c[x]])

\* C1: after any sequence of put, get, contains, remove, clear and
\* cleanup_expired, current_size is the sum of size_bytes over the stored
\* entries and is at most max_size_bytes.
C1_SizeAccounted ==
    /\ current_size = EntryBytes(cache)
    /\ current_size <= max_size_bytes

\* a full cache of two entries, reached through an eviction
C1_FullAfterEviction ==
    /\ current_size = max_size_bytes
    /\ Cardinality(DOMAIN cache) = 2
    /\ stats.evictions > 0

\* C10: when a put has to evict, the first key it evicts is a stored entry
\* whose last_accessed is the smallest of all stored entries.
C10_FirstEvictedIsLeastRecent ==
    [][(cacheOut'.evicted # <<>> /\ PutStep) =>
          LET first == cacheOut'.evicted[1]
          IN  /\ first \in DOMAIN cache
              /\ \A k \in DOMAIN cache :
                     cache[first].last_accessed <= cache[k].last_accessed]_vars

\* a put evicted b, the younger entry, and kept a, which a get had refreshed
C10_EvictedAfterRead ==
    /\ cacheOut.evicted = <<"b">>
    /\ "a" \in DOMAIN cache
    /\ cache["a"].created_at < cache["a"].last_accessed
    /\ \E k \in DOMAIN cache : cache[k].created_at > cache["a"].created_at

\* the calls of the eviction scenario
EvictionScenario ==
    << <<"put", "a", 600>>, <<"put", "b", 300>>, <<"get", "a", 0>>,
       <<"put", "c", 500>> >>

\* C11: with max_size_bytes = 1000, after put(a, 600 bytes); put(b, 300
\* bytes); get(a); put(c, 500 bytes) the last put has evicted b and then a
\* (600 + 500 bytes do not fit in 1000), the cache holds exactly {c} and
\* evictions == 2.
C11_ScenarioEvictsBoth ==
    calls = EvictionScenario =>
        /\ cacheOut.evicted = <<"b", "a">>
        /\ DOMAIN cache = {"c"}
        /\ stats.evictions = 2

\* C11 as stated: the scenario evicts b only, the cache holds exactly {a, c}
\* and evictions == 1.
C11_ScenarioKeepsA ==
    calls = EvictionScenario =>
        /\ cacheOut.evicted = <<"b">>
        /\ DOMAIN cache = {"a", "c"}
        /\ stats.evictions = 1

\* the scenario has run to its end and c alone fills the cache
C11_ScenarioRun ==
    /\ calls = EvictionScenario
    /\ current_size = 500
    /\ max_size_bytes = 1000
\* C12: after any sequence of put, get, contains, remove, clear and
\* cleanup_expired, access_order holds every cached key exactly once and no
\* key that is not cached.
C12_AccessOrderIsPermutation ==
    /\ Range(access_order) = DOMAIN cache
    /\ Len(access_order) = Cardinality(DOMAIN cache)

\* two cached keys, after a replacing put, a get hit and an eviction
C12_ReorderedList ==
    /\ Len(access_order) = 2
    /\ stats.hits > 0
    /\ stats.evictions > 0
    /\ access_order # cache_keys

\* the TTL of a stored entry has elapsed: now - created_at > ttl
TtlElapsed(key) == now - cache[key].created_at > cache[key].ttl

\* C13: a get on a key that is present but whose TTL has elapsed removes the
\* entry (its bytes and its recency slot), records a miss and returns empty;
\* a get never returns the data of an entry whose TTL has elapsed.
C13_ExpiredGetRemovesAndMisses ==
    [][\A key \in DOMAIN cache :
          (TtlElapsed(key) /\ Get(key)) =>
              /\ key \notin DOMAIN cache'
              /\ key \notin Range(access_order')
              /\ current_size' = current_size - cache[key].size_bytes
              /\ stats'.misses = stats.misses + 1
              /\ stats'.hits = stats.hits
              /\ ~cacheOut'.ok
              /\ cacheOut'.data = NoData]_vars

\* a was stored, its TTL elapsed, and the one get of a missed and removed it
C13_ExpiredGetHappened ==
    /\ calls = << <<"put", "a", 1>>, <<"get", "a", 0>> >>
    /\ stats.misses = 1
    /\ cache = <<>>
    /\ current_size = 0

\* C14: an entry stored by put with ttl None never expires: however much
\* time passes, a get of it returns it and cleanup_expired leaves it in the
\* cache.  (Every put of the client of TtlSpec passes ttl None.)
C14_NoTtlNeverExpires ==
    [][\A key \in DOMAIN cache :
          /\ Get(key) => (cacheOut'.ok /\ key \in DOMAIN cache')
          /\ CleanupExpired => key \in DOMAIN cache']_vars

\* the characters of the keys, in code-point order
Chars == <<"1", "2", ":", "d", "e", "g", "h", "l", "m", "o">>
Rank(c) == CHOOSE i \in 1..Len(Chars) : Chars[i] = c

\* s < t for Python strings
RECURSIVE StrLess(_, _)
StrLess(s, t) ==
    IF t = <<>> THEN FALSE
    ELSE IF s = <<>> THEN TRUE
    ELSE IF Head(s) = Head(t) THEN StrLess(Tail(s), Tail(t))
    ELSE Rank(Head(s)) < Rank(Head(t))

\* the cached keys with prefix model:{model_id}:
Prefixed(model_id) ==
    {k \in DOMAIN cache : StartsWith(k, CacheKey(model_id, <<>>))}

\* C15: get_latest_model(model_id) returns the data of the entry with key
\* prefix model:{model_id}: that has the greatest created_at and, among
\* entries sharing the greatest created_at, the lexicographically greatest
\* version string (as long as the TTL of that entry has not elapsed).
C15_LatestByTimeThenVersion ==
    [][\A model_id \in ModelIds :
          (Prefixed(model_id) # {} /\ GetLatestModel(model_id)) =>
              LET newest == {k \in Prefixed(model_id) :
                               \A j \in Prefixed(model_id) :
                                   cache[j].created_at <= cache[k].created_at}
                  expected == CHOOSE k \in newest : \A j \in newest \ {k} :
                                 StrLess(cache[j].metadata.version,
                                         cache[k].metadata.version)
              IN  ~TtlElapsed(expected) =>
                      /\ cacheOut'.ok
                      /\ cacheOut'.data = cache[expected].data]_vars

\* C36: put(k, x) on a key k that is cached frees the old entry first: when
\* current_size - old size + new size <= max_size_bytes, no other key is
\* evicted and the evictions counter is unchanged.
C36_ReplacementEvictsNothing ==
    [][\A key \in DOMAIN cache, data \in Datas, ttl \in TtlArgs :
          (/\ ~PickleRaises(data)
           /\ current_size - cache[key].size_bytes + PickledSize(data)
                  <= max_size_bytes
           /\ Put(key, data, ttl, <<>>)
           /\ UNCHANGED <<aggVars, coordVars, nodeVars, monitorVars,
                          max_size_bytes, calls>>)
          => /\ cacheOut'.ok
             /\ DOMAIN cache' = DOMAIN cache
             /\ stats'.evictions = stats.evictions]_vars

(***************************************************************************)
(* Properties of the Regional Aggregator                                   *)
(***************************************************************************)
PendingClients == {pending_updates[i].client_id : i \in 1..Len(pending_updates)}

\* C2: add_edge_update is rejected whenever no round is active (before the
\* first start_round, and in Idle after a round has finished), and then
\* leaves pending_updates unchanged.
C2_RejectedWithoutActiveRound ==
    [][(~TaskActive /\ AddEdgeUpdateStep) =>
          (~aggOut'.admitted /\ pending_updates' = pending_updates)]_vars

C7_NoDuplicateClient ==
    /\ [](\A i, j \in 1..Len(pending_updates) :
            i # j => pending_updates[i].client_id # pending_updates[j].client_id)
    /\ [][~(/\ aggOut'.admitted \/ pending_updates' # pending_updates
            /\ UNCHANGED <<now, cacheVars, coordVars, nodeVars, monitorVars, strategy, min_clients, current_round, aggregation_history,
                           round_start_time, aggregation_task, task_waited, submitted>>
            /\ \E client \in PendingClients, kind \in UpdateKinds, timestamp \in 0..now :
                  AddEdgeUpdate(EdgeUpdate(client, kind, timestamp)))]_vars

\* a client that is pending has just been turned away
C7_DuplicateTurnedAway ==
    /\ Len(pending_updates) >= 2
    /\ ~aggOut.admitted
    /\ TaskActive

\* the result a finished round has just appended to the history
NewResult == aggregation_history'[Len(aggregation_history')]
Aggregated == Len(aggregation_history') = Len(aggregation_history) + 1

TaskEnds == TaskActive /\ aggregation_task' = "finished"

C18_EmptyRoundEmitsNothing ==
    [][(TaskEnds /\ pending_updates = <<>>) =>
          /\ task_waited' = MaxWaitTime
          /\ aggregation_history' = aggregation_history
          /\ current_round' = current_round
          /\ current_round' >= Len(aggregation_history') + 1
          /\ ~TaskActive']_vars

\* the first round ended at its deadline without any update
C18_EmptyRoundEnded ==
    /\ aggregation_task = "finished"
    /\ task_waited = MaxWaitTime
    /\ pending_updates = <<>>
    /\ aggregation_history = <<>>
    /\ current_round = 1

\* some pending update lacks a parameter name of the first pending update
HeterogeneousPending ==
    \E i \in 1..Len(pending_updates) :
        \E p \in DOMAIN pending_updates[1].model_weights :
            p \notin DOMAIN pending_updates[i].model_weights

\* C19: when a pending update lacks a parameter name of the first one, the
\* round aborts as its task ends: no result is appended (rounds_completed
\* unchanged), current_round keeps the increment of the round's start, and
\* the task is done, so that a new round can be started.
C19_HeterogeneousRoundAborts ==
    [][(TaskEnds /\ pending_updates # <<>> /\ HeterogeneousPending) =>
          /\ aggregation_history' = aggregation_history
          /\ current_round' = current_round
          /\ current_round' >= Len(aggregation_history') + 1
          /\ ~TaskActive']_vars

\* the first round ended before its deadline, on a quorum of clients that
\* train different models, and left no result
C19_AbortedOnQuorum ==
    /\ aggregation_task = "finished"
    /\ task_waited < MaxWaitTime
    /\ HeterogeneousPending
    /\ aggregation_history = <<>>
    /\ current_round = 1

\* C20: under FEDAVG, FEDPROX and REGIONAL, a polling step of the
\* coordination task that finds min_clients or more pending updates ends the
\* collection whatever time has passed, and aggregates the pending updates
\* (unless their parameter names differ, which aborts the round).
C20_QuorumClosesRound ==
    [][(/\ strategy \in {"fedavg", "fedprox", "regional"}
        /\ Len(pending_updates) >= MinClients
        /\ CoordinateAggregationStep) =>
          /\ aggregation_task' = "finished"
          /\ ~HeterogeneousPending =>
                /\ Aggregated
                /\ NewResult.participating_clients =
                       [i \in 1..Len(pending_updates) |-> pending_updates[i].client_id]]_vars

\* a FedProx round was aggregated on its quorum before the deadline
C20_ClosedBeforeDeadline ==
    /\ strategy = "fedprox"
    /\ aggregation_task = "finished"
    /\ task_waited < MaxWaitTime
    /\ Len(aggregation_history) = 1
    /\ Len(aggregation_history[1].participating_clients) = MinClients

\* the early-closing rule, with the variance of the pending losses whatever
\* their number
AdaptiveRule ==
    /\ TotalSamples(pending_updates) >= 100
    /\ \/ LossVarianceBelowTenth(pending_updates)
       \/ Len(pending_updates) >= 2 * min_clients

\* C21: under ADAPTIVE, a polling step before the deadline that finds the
\* quorum met closes the round exactly when sum(sample_count) >= 100 and
\* (variance of the pending losses < 0.1 or |pending_updates| >=
\* 2 * min_clients), a single pending update having variance 0.
C21_AdaptiveClosesExactlyOnRule ==
    [][(/\ strategy = "adaptive"
        /\ Len(pending_updates) >= min_clients
        /\ CoordinateAggregationStep
        /\ task_waited' < MaxWaitTime) =>
          (aggregation_task' = "finished" <=> AdaptiveRule)]_vars

\* the orders a list of n updates can be admitted in
Orders(n) == {f \in [1..n -> 1..n] : \A i, j \in 1..n : f[i] = f[j] => i = j}
Reordered(updates, f) == [i \in 1..Len(updates) |-> updates[f[i]]]

\* C22: the outcome of a round depends only on the set of admitted updates
\* and the strategy: admitted in any other order, the updates a round ends
\* with give the same success or abort and the same aggregated weights.
C22_OrderDoesNotMatter ==
    [][(TaskEnds /\ pending_updates # <<>>) =>
          \A f \in Orders(Len(pending_updates)) :
              LET other == AggregationOf(Reordered(pending_updates, f))
              IN  /\ other.raised = PerformAggregation.raised
                  /\ ~other.raised =>
                         other.result.aggregated_weights =
                         PerformAggregation.result.aggregated_weights]_vars

\* C37: at most one coordination task is active at a time: a round and its
\* task start only when no task is active, and start_aggregation_round
\* called while a task is active leaves current_round, round_start_time,
\* pending_updates and the task as they are.
C37_OneActiveRound ==
    /\ [][(TaskActive /\ StartRound)
          => UNCHANGED <<current_round, round_start_time, pending_updates,
                         aggregation_task, task_waited>>]_vars
    /\ [][(\/ current_round' # current_round
           \/ (aggregation_task' = "created" /\ aggregation_task # "created"))
          => ~TaskActive /\ TaskActive']_vars

\* a round is collecting: its task is active and updates are pending
C37_RoundCollecting ==
    /\ TaskActive
    /\ current_round >= 1
    /\ pending_updates # <<>>
    /\ round_start_time # <<>>

\* the result of the round the aggregator is in, when that round has one
RoundResults ==
    {i \in 1..Len(aggregation_history) :
        aggregation_history[i].aggregation_round = current_round}

\* C38: no admitted update is lost: once the round an update was admitted to
\* (the round the aggregator is in, whose start emptied pending_updates) has
\* ended with an AggregationResult, every update that add_edge_update admitted
\* to it is among the participating_clients of that result.  A round that was
\* cancelled or that ended without a result is not spoken for.
C38_NoAdmittedUpdateLost ==
    (aggregation_task = "finished" /\ RoundResults # {}) =>
        \A i \in 1..Len(pending_updates) :
            \A r \in RoundResults :
                \E j \in 1..Len(aggregation_history[r].participating_clients) :
                    aggregation_history[r].participating_clients[j] =
                        pending_updates[i].client_id

(***************************************************************************)
(* Properties of the Fog Orchestrator                                      *)
(***************************************************************************)
\* C3: on a FogNode, once min_clients clients (here c1 and c2) have each
\* submitted a valid update through submit_training_update, eventually a
\* round is started (without which no AggregationResult including their
\* updates can be produced).
C3_QuorumStartsRound ==
    ({"c1", "c2"} \subseteq submitted) ~> (current_round > 0)

\* C23: whenever a non-empty round has produced an AggregationResult for
\* round R, the Model Cache later holds an entry under aggregation:{R}
\* (stated for the time before the node's next round falls due).
C23_ResultGetsCached ==
    \A R \in 1..MaxRounds :
        (\E i \in 1..Len(aggregation_history) :
             aggregation_history[i].aggregation_round = R)
        ~> \/ AggregationKey(R) \in DOMAIN cache
           \/ (TaskIdle /\ Len(pending_updates) >= min_clients)

\* C32: when the aggregator rejects the update of a training/update message
\* (no active round, stale, no weights, no samples, duplicate client), the
\* training/ack sent to the device carries a status that is no success.
C32_RejectedUpdateIsNotAcknowledged ==
    [][\A device_id \in Clients, kind \in UpdateKinds :
          (/\ HandleTrainingUpdate(device_id, kind)
           /\ ~aggOut'.admitted)
          => \E i \in 1..Len(edgeOut'.published) :
                /\ edgeOut'.published[i][1] = device_id
                /\ edgeOut'.published[i][2] = "training/ack"
                /\ edgeOut'.published[i][3] # "received"]_vars

\* C33: a model/request that names a version is answered with a model/update
\* carrying the cached model when that version is cached and unexpired, and
\* with a model/error when it is not; every model/request gets exactly one
\* of the two answers.
C33_ModelRequestAnswered ==
    [][\A device_id \in Workers, version \in VersionArgs :
          HandleModelRequest(device_id, version)
          => /\ Len(edgeOut'.published) = 1
             /\ edgeOut'.published[1][1] = device_id
             /\ edgeOut'.published[1][2] \in {"model/update", "model/error"}
             /\ version # <<>> =>
                   LET key == CacheKey(GlobalModelId, version[1])
                   IN  IF key \in DOMAIN cache /\ ~Expired(cache[key], now)
                       THEN /\ edgeOut'.published[1][2] = "model/update"
                            /\ edgeOut'.published[1][3] = cache[key].data
                       ELSE edgeOut'.published[1][2] = "model/error"]_vars

\* the model/update messages an operation sent to a device
ModelUpdatesTo(out, device_id) ==
    Cardinality({i \in 1..Len(out.published) :
                    /\ out.published[i][1] = device_id
                    /\ out.published[i][2] = "model/update"})

\* C35: a successful registration on a started node hands the latest cached
\* model to the edge transport for that device exactly once when a latest
\* model is cached, also after the node was stopped and started again, and
\* sends no model when none is cached.
C35_LatestModelSentOnce ==
    [][\A device_id \in Workers :
          (/\ HandleDeviceRegistration(device_id)
           /\ coordOut'.ok)
          => ModelUpdatesTo(edgeOut', device_id)
                 = IF GetLatestModelIn(NodeCache, GlobalModelId).ok THEN 1 ELSE 0]_vars

\* C34: whenever assign_task returns a workload id, a task/assign message
\* for that workload is sent to the selected device through the edge
\* transport.
C34_AssignedTaskIsSent ==
    [][\A workload \in WorkloadArgs :
          (/\ AssignTask(workload[1], workload[2])
           /\ coordOut'.ok)
          => \E i \in 1..Len(edgeOut'.published) :
                /\ edgeOut'.published[i][1]
                       = workload_assignments'[coordOut'.workload_id[1]].device_id
                /\ edgeOut'.published[i][2] = "task/assign"]_vars

\* C39: a message that arrives on the subscribed topic of a kind of message
\* (fog/{node_id}/device/{device_id}/register, .../device/{device_id}/heartbeat,
\* .../training/{device_id}/update, .../model/{device_id}/request,
\* .../task/{device_id}/result) is routed to the handler of its message type
\* (device/register, device/heartbeat, training/update, model/request,
\* task/result) with that device_id.
C39_MessageRoutedToItsHandler ==
    [][\A kind \in MessageKinds, device_id \in TopicDevices :
          OnMqttMessage(DeviceTopic(kind[1], device_id, kind[2])) =>
              edgeOut'.handled =
                  <<<<MessageHandlers[<<kind[1], "/", kind[2]>>], device_id>>>>]_vars

(***************************************************************************)
(* Properties of the Edge Coordinator                                      *)
(***************************************************************************)
\* the assignments to a device that are assigned or running
ActiveAssignments(device_id) ==
    {w \in DOMAIN workload_assignments :
        /\ workload_assignments[w].device_id = device_id
        /\ workload_assignments[w].status \in {"assigned", "running"}}

\* C4: every device has at most one assignment whose status is assigned or
\* running.
C4_OneActiveAssignmentPerDevice ==
    \A device_id \in Devices : Cardinality(ActiveAssignments(device_id)) <= 1

\* C5: a registered device has status busy if and only if some assignment
\* targeting it is assigned or running.
C5_BusyIffActiveAssignment ==
    \A device_id \in DOMAIN connected_devices :
        connected_devices[device_id].status = "busy"
            <=> ActiveAssignments(device_id) # {}

\* C8: the registry never holds more than max_edge_devices devices; a
\* register_device that finds the registry full or the device_id registered
\* returns false, leaves the registry and the group index unchanged and
\* notifies no device_connected.
C8_RegistryBounded ==
    /\ [](Cardinality(DOMAIN connected_devices) <= MaxEdgeDevices)
    /\ [][\A device_id \in Devices :
            (/\ \/ Cardinality(DOMAIN connected_devices) >= MaxEdgeDevices
                \/ device_id \in DOMAIN connected_devices
             /\ RegisterDevice(device_id, DeviceType(device_id), Capabilities(device_id))
             /\ UNCHANGED <<now, cacheVars, aggVars>>)
            => /\ ~coordOut'.ok
               /\ UNCHANGED <<connected_devices, device_order, device_groups>>
               /\ "device_connected" \notin Range(coordOut'.events)]_vars

\* a register_device has just been turned away at a full registry
C8_TurnedAwayWhenFull ==
    /\ Cardinality(DOMAIN connected_devices) = MaxEdgeDevices
    /\ coordOut.op = "register_device"
    /\ ~coordOut.ok

\* C9: complete_workload on an assignment that is already completed, failed
\* or cancelled returns false, changes neither the assignments nor any
\* device, and notifies no workload_completed.
C9_CompleteTerminalRefused ==
    [][\A workload_id \in DOMAIN workload_assignments :
          (/\ workload_assignments[workload_id].status
                  \in {"completed", "failed", "cancelled"}
           /\ CompleteWorkload(workload_id)
           /\ UNCHANGED <<now, cacheVars, aggVars>>)
          => /\ ~coordOut'.ok
             /\ UNCHANGED <<workload_assignments, connected_devices>>
             /\ "workload_completed" \notin Range(coordOut'.events)]_vars


\* the devices assign_workload may choose for a workload type: online or idle,
\* and capable of the type (no caller passes a filter)
Candidates(workload_type) ==
    {d \in DOMAIN connected_devices :
        /\ connected_devices[d].status \in {"online", "idle"}
        /\ CanHandleWorkload(connected_devices[d], workload_type)}

\* device d comes before device c in the selection: a greater score, or the
\* same score and not connected later
Preferred(d, c) ==
    LET score_d == CalculateDeviceScore(connected_devices[d])
        score_c == CalculateDeviceScore(connected_devices[c])
    IN  \/ score_d > score_c
        \/ /\ score_d = score_c
           /\ connected_devices[d].connected_at <= connected_devices[c].connected_at

C25_WorkloadIdsUnique ==
    [][(/\ coordOut'.op = "assign_workload"
        /\ coordOut'.ok
        /\ AssignWorkloadStep)
       => /\ coordOut'.workload_id[1] \notin DOMAIN workload_assignments
          /\ \A w \in DOMAIN workload_assignments :
                workload_assignments'[w] = workload_assignments[w]]_vars


\* C26: after an update_device_status(device_id, status, metrics) that
\* returns true the device has the status reported, whatever it is; a device
\* reported overloaded or low_battery is then no candidate of assign_workload.
C26_StatusIsTheOneReported ==
    [][\A device_id \in Devices, status \in ReportedStatuses :
          \A metrics \in MetricsArgs(device_id) :
              (/\ coordOut'.op = "update_device_status"
               /\ coordOut'.ok
               /\ UpdateDeviceStatus(device_id, status, metrics)
               /\ UNCHANGED <<now, cacheVars, aggVars>>)
              => /\ connected_devices'[device_id].status = status
                 /\ status \in {"overloaded", "low_battery"}
                        => connected_devices'[device_id].status
                               \notin {"online", "idle"}]_vars


\* assignment.parameters.get("priority", 0)
Priority(assignment) == DictGet(assignment.parameters, "priority", 0)

\* update_device_status(device_id, status, metrics) has just returned true
StatusReported(device_id, status) ==
    /\ coordOut'.op = "update_device_status"
    /\ coordOut'.ok
    /\ \E metrics \in MetricsArgs(device_id) :
          UpdateDeviceStatus(device_id, status, metrics)
    /\ UNCHANGED <<now, cacheVars, aggVars>>

\* C27: when a device is reported overloaded, exactly its assigned or running
\* assignments of priority <= 5 become cancelled, those of priority > 5 stay
\* as they are, and device_overloaded is fired.
C27_OverloadCancelsNonCritical ==
    [][\A device_id \in Devices :
          StatusReported(device_id, "overloaded")
          => /\ \A w \in DOMAIN workload_assignments :
                   workload_assignments'[w].status =
                       IF /\ w \in ActiveAssignments(device_id)
                          /\ Priority(workload_assignments[w]) <= 5
                       THEN "cancelled"
                       ELSE workload_assignments[w].status
             /\ "device_overloaded" \in Range(coordOut'.events)]_vars

\* C28: when a device is reported low_battery, exactly its assigned or
\* running assignments of priority > 5 become cancelled and those of
\* priority <= 5 stay as they are.
C28_LowBatteryCancelsCritical ==
    [][\A device_id \in Devices :
          StatusReported(device_id, "low_battery")
          => \A w \in DOMAIN workload_assignments :
                workload_assignments'[w].status =
                    IF /\ w \in ActiveAssignments(device_id)
                       /\ Priority(workload_assignments[w]) > 5
                    THEN "cancelled"
                    ELSE workload_assignments[w].status]_vars


\* the registered devices not seen for more than device_timeout
TimedOut ==
    {d \in DOMAIN connected_devices :
        now - connected_devices[d].last_seen > DeviceTimeout}

\* C29: a health check unregisters every device whose last_seen is older
\* than device_timeout: the device leaves the registry and the group index,
\* its assigned or running assignments become cancelled or failed, and
\* device_disconnected is fired once for each such device; the other devices
\* stay registered.
C29_TimedOutDeviceUnregistered ==
    [][(/\ coordOut'.op = "monitoring_loop"
        /\ CoordinatorMonitoringLoop)
       => /\ \A d \in TimedOut :
                /\ d \notin DOMAIN connected_devices'
                /\ d \notin Range(device_order')
                /\ \A g \in DOMAIN device_groups' : d \notin device_groups'[g]
                /\ \A w \in ActiveAssignments(d) :
                      workload_assignments'[w].status \in {"cancelled", "failed"}
          /\ DOMAIN connected_devices' = DOMAIN connected_devices \ TimedOut
          /\ Cardinality({i \in DOMAIN coordOut'.events :
                             coordOut'.events[i] = "device_disconnected"})
                 = Cardinality(TimedOut)]_vars

\* a health check has just unregistered a device and cancelled its
\* assignment
C29_SilentDeviceDropped ==
    /\ coordOut.op = "monitoring_loop"
    /\ "device_disconnected" \in Range(coordOut.events)
    /\ \E w \in DOMAIN workload_assignments :
          /\ workload_assignments[w].status = "cancelled"
          /\ workload_assignments[w].device_id \notin DOMAIN connected_devices
          /\ \A g \in DOMAIN device_groups :
                workload_assignments[w].device_id \notin device_groups[g]


\* C30: a health check fails every assigned or running assignment whose
\* expected_completion has passed, and frees its device: current_workload
\* cleared, no longer busy.  (The assignments of a device the same check
\* unregisters are left to C29.)
C30_ExpiredWorkloadFails ==
    [][(/\ coordOut'.op = "monitoring_loop"
        /\ CoordinatorMonitoringLoop)
       => \A w \in DOMAIN workload_assignments :
             LET assignment == workload_assignments[w]
                 device_id == assignment.device_id
             IN  (/\ assignment.status \in {"assigned", "running"}
                  /\ now > assignment.expected_completion
                  /\ device_id \in DOMAIN connected_devices \ TimedOut)
                 => /\ workload_assignments'[w].status = "failed"
                    /\ connected_devices'[device_id].current_workload = <<>>
                    /\ connected_devices'[device_id].status # "busy"]_vars


\* a subscriber of the event type raises when it is called
SomeSubscriberRaises(event_type) ==
    \E i \in 1..Len(event_callbacks[event_type]) :
        Raises(event_callbacks[event_type][i])

\* C31: when a subscriber of an event raises, every subscriber of the event
\* is still called, and the operation that fired the event completes: no
\* exception leaves it, it returns true and its state change stands.
C31_RaisingSubscriberIsIsolated ==
    [][\A event_type \in EventTypes :
          (/\ coordOut'.op \in {"register_device", "unregister_device",
                                "complete_workload", "update_device_status"}
           /\ event_type \in Range(coordOut'.events)
           /\ SomeSubscriberRaises(event_type)
           /\ UNCHANGED event_callbacks
           /\ CallbackNext)
          => /\ \A i \in 1..Len(event_callbacks[event_type]) :
                   <<event_type, event_callbacks[event_type][i]>>
                       \in Range(coordOut'.invoked)
             /\ Len(coordOut'.invoked) = Len(event_callbacks[event_type])
             /\ ~coordOut'.raised
             /\ coordOut'.ok
             /\ CASE event_type = "device_connected" ->
                       DOMAIN connected_devices' # DOMAIN connected_devices
                  [] event_type = "device_disconnected" ->
                       DOMAIN connected_devices' # DOMAIN connected_devices
                  [] event_type = "workload_completed" ->
                       \E w \in DOMAIN workload_assignments :
                           workload_assignments'[w].status = "completed"
                  [] OTHER ->
                       \A w \in DOMAIN workload_assignments :
                           workload_assignments'[w].status \notin {"assigned", "running"}]_vars

\* a registration has just called a subscriber that raises and then the
\* subscriber after it
C31_CalledAfterTheRaise ==
    /\ coordOut.op = "register_device"
    /\ coordOut.ok
    /\ coordOut.invoked = <<<<"device_connected", "broken">>,
                            <<"device_connected", "log">>>>
    /\ "d1" \in DOMAIN connected_devices

(***************************************************************************)
(* Properties of the Resource Monitor                                      *)
(***************************************************************************)
\* C40: when a call of update_metrics has returned, whether or not it
\* collected a new sample, metrics_history holds no metric whose timestamp is
\* more than the retention (24 hours) before the time of the return.
C40_NoMetricOlderThanRetention ==
    (monitorOut.op = "update_metrics" /\ monitorOut.at = now) =>
        \A i \in 1..Len(metrics_history) :
            ~(metrics_history[i].timestamp < now - MetricsRetention)

====
